---- MODULE Spec2Model ----
(***************************************************************************)
(* A model of the Chip-8 interpreter of src/src/lib.rs (struct Chip8 and   *)
(* its methods).  The machine is the record of the fields of Chip8; every  *)
(* private method is an operator from machine records to machine records,  *)
(* every public method is an action.  A Rust panic is recorded in the      *)
(* field "fault"; the machine record then holds whatever the method had    *)
(* written before it panicked.                                             *)
(***************************************************************************)
EXTENDS Integers, Naturals, Sequences, FiniteSets, TLC

(***************************************************************************)
(* Program constants (src/src/lib.rs:4-25)                                 *)
(***************************************************************************)
DISPLAY_WIDTH == 64
DISPLAY_HEIGHT == 32
PROGRAM_START_ADDRESS == 512
MEMORY_SIZE == 4096
STACK_SIZE == 16
VARIABLE_REGISTER_COUNT == 16
NUM_KEYS == 16
FONT_START_ADDRESS == 80

\* The font sprite data (1-based here, 0-based in the source)
FONT ==
  << 240, 144, 144, 144, 240,
      32,  96,  32,  32, 112,
     240,  16, 240, 128, 240,
     240,  16, 240,  16, 240,
     144, 144, 240,  16,  16,
     240, 128, 240,  16, 240,
     240, 128, 240, 144, 240,
     240,  16,  32,  64,  64,
     240, 144, 240, 144, 240,
     240, 144, 240,  16, 240,
     240, 144, 240, 144, 144,
     224, 144, 224, 144, 224,
     240, 128, 128, 128, 240,
     224, 144, 144, 144, 224,
     240, 128, 240, 128, 240,
     240, 128, 240, 128, 128 >>

EmulatorType == {"CosmacVip", "Chip48"}
KeyState == {"Up", "Down"}

\* Widths of the integer types of the fields
U8 == 256
U16 == 65536

(***************************************************************************)
(* Bounds of the model                                                     *)
(***************************************************************************)
\* keys 0..MaxKey are pressed and released by the host
MaxKey == 1
\* the entropy source yields the bytes 255-MaxRandom .. 255
MaxRandom == 1

\* main calls decrement_timers when counter % 12 == 0
InstructionsPerTick == 12

(***************************************************************************)
(* Bit arithmetic on unsigned integers                                     *)
(***************************************************************************)
RECURSIVE Pow2(_)
Pow2(i) == IF i = 0 THEN 1 ELSE 2 * Pow2(i - 1)

RECURSIVE BitAnd(_, _)
BitAnd(a, b) ==
  IF a = 0 \/ b = 0 THEN 0
  ELSE ((a % 2) * (b % 2)) + 2 * BitAnd(a \div 2, b \div 2)

RECURSIVE BitOr(_, _)
BitOr(a, b) ==
  IF a = 0 THEN b ELSE IF b = 0 THEN a
  ELSE (IF (a % 2) + (b % 2) > 0 THEN 1 ELSE 0) + 2 * BitOr(a \div 2, b \div 2)

RECURSIVE BitXor(_, _)
BitXor(a, b) ==
  IF a = 0 THEN b ELSE IF b = 0 THEN a
  ELSE (((a % 2) + (b % 2)) % 2) + 2 * BitXor(a \div 2, b \div 2)

(***************************************************************************)
(* OpCode: the fields of a 16-bit opcode                                   *)
(***************************************************************************)
OpX(opcode) == BitAnd(opcode, 3840) \div 256
OpY(opcode) == BitAnd(opcode, 240) \div 16
OpN(opcode) == BitAnd(opcode, 15)
OpNN(opcode) == BitAnd(opcode, 255)
OpNNN(opcode) == BitAnd(opcode, 4095)

(***************************************************************************)
(* The state: the fields of Chip8, the panic status, and the build         *)
(***************************************************************************)
VARIABLES
  ram, frame_buffer, stack, stack_pointer, delay_timer, sound_timer,
  program_counter, index_register, variable_registers, emulator_type,
  keypad_state, previous_keypad_state,
  rng,              \* the entropy source: the number of values drawn from it so far
  fault,            \* "none", or the kind of panic that ended the run
  overflow_checks,  \* whether the build panics on integer overflow (debug) or wraps (release)
  rom,              \* the bytes of the guest program the host was built with
  waiting,          \* history: the last executed instruction was an Fx0A that rewound
  wait_down,        \* history: keys seen Down by an execution of the Fx0A now waiting
  calls,            \* history: the return addresses of the 2nnn not yet returned from
  last_key_call,    \* history: per key, the state set by the host's last key_down/key_up
  sound_loaded,     \* history: the value the last executed Fx18 loaded
  sound_ticks,      \* history: the calls of decrement_timers since, up to sound_loaded
  delay_loaded,     \* history: the value the last executed Fx15 loaded
  delay_ticks,      \* history: the calls of decrement_timers since, up to delay_loaded
  host_at,          \* the host: "any" caller of the library, or the place main has reached
  counter,          \* main's counter: u8
  polled,           \* main's for loop over key_code_map: the keys it has passed
  since_tick        \* history: execute_next_instruction calls of main since its last
                    \* decrement_timers, -1 before the first

machine_vars ==
  << ram, frame_buffer, stack, stack_pointer, delay_timer, sound_timer,
     program_counter, index_register, variable_registers, emulator_type,
     keypad_state, previous_keypad_state, rng >>

vars ==
  << ram, frame_buffer, stack, stack_pointer, delay_timer, sound_timer,
     program_counter, index_register, variable_registers, emulator_type,
     keypad_state, previous_keypad_state, rng, fault, overflow_checks, rom,
     waiting, wait_down, calls, last_key_call, sound_loaded, sound_ticks,
     delay_loaded, delay_ticks, host_at, counter, polled, since_tick >>

\* the variables of main
main_vars == << host_at, counter, polled, since_tick >>

\* The machine as one record, the argument and result of the methods
Chip8 ==
  [ ram |-> ram, frame_buffer |-> frame_buffer, stack |-> stack,
    stack_pointer |-> stack_pointer, delay_timer |-> delay_timer,
    sound_timer |-> sound_timer, program_counter |-> program_counter,
    index_register |-> index_register,
    variable_registers |-> variable_registers,
    emulator_type |-> emulator_type, keypad_state |-> keypad_state,
    previous_keypad_state |-> previous_keypad_state, rng |-> rng,
    fault |-> fault, overflow_checks |-> overflow_checks ]

\* Chip8::new
new(et, oc) ==
  [ ram |-> [a \in 0..(MEMORY_SIZE - 1) |->
               IF a >= FONT_START_ADDRESS /\ a < FONT_START_ADDRESS + Len(FONT)
               THEN FONT[a - FONT_START_ADDRESS + 1] ELSE 0],
    frame_buffer |-> [i \in 0..(DISPLAY_WIDTH * DISPLAY_HEIGHT - 1) |-> 0],
    stack |-> [i \in 0..(STACK_SIZE - 1) |-> 0],
    stack_pointer |-> 0,
    delay_timer |-> 0,
    sound_timer |-> 0,
    program_counter |-> PROGRAM_START_ADDRESS,
    index_register |-> 0,
    variable_registers |-> [i \in 0..(VARIABLE_REGISTER_COUNT - 1) |-> 0],
    emulator_type |-> et,
    keypad_state |-> [k \in 0..(NUM_KEYS - 1) |-> "Up"],
    previous_keypad_state |-> [k \in 0..(NUM_KEYS - 1) |-> "Up"],
    rng |-> 0,
    fault |-> "none",
    overflow_checks |-> oc ]

panic(m, kind) == [m EXCEPT !.fault = kind]


(***************************************************************************)
(* The instructions (private methods of Chip8)                             *)
(***************************************************************************)
Vx(m, x) == m.variable_registers[x]

SetV(m, x, v) == [m EXCEPT !.variable_registers[x] = v]

\* program_counter += 2 on a u16: panics or wraps on overflow, by the build
AdvancePc(m) ==
  IF m.program_counter + 2 >= U16
  THEN IF m.overflow_checks THEN panic(m, "arithmetic_overflow")
       ELSE [m EXCEPT !.program_counter = (m.program_counter + 2) % U16]
  ELSE [m EXCEPT !.program_counter = m.program_counter + 2]

clear_screen(m) ==
  [m EXCEPT !.frame_buffer = [i \in 0..(DISPLAY_WIDTH * DISPLAY_HEIGHT - 1) |-> 0]]

\* jump that keeps the twelve low bits of the address only
jump_masked(m, nnn) == [m EXCEPT !.program_counter = nnn % MEMORY_SIZE]
jump(m, nnn) == [m EXCEPT !.program_counter = nnn]

set_variable_register(m, x, nn) == SetV(m, x, nn)

\* 7xnn with a sum that saturates at 0xFF instead of wrapping
add_to_variable_register_saturating(m, x, nn) ==
  SetV(m, x, IF Vx(m, x) + nn > U8 - 1 THEN U8 - 1 ELSE Vx(m, x) + nn)

add_to_variable_register(m, x, nn) == SetV(m, x, (Vx(m, x) + nn) % U8)

\* Annn that assigns the program counter, as 1nnn does
set_index_register_as_jump(m, nnn) == [m EXCEPT !.program_counter = nnn]

set_index_register(m, nnn) == [m EXCEPT !.index_register = nnn]

\* call_subroutine with the stack taken to hold one entry more
call_subroutine_one_more(m, nnn) ==
  IF m.stack_pointer > STACK_SIZE
  THEN panic(m, "index_out_of_bounds")
  ELSE [m EXCEPT !.stack[m.stack_pointer] = m.program_counter,
                 !.stack_pointer = m.stack_pointer + 1,
                 !.program_counter = nnn]

call_subroutine(m, nnn) ==
  IF m.stack_pointer >= STACK_SIZE
  THEN panic(m, "index_out_of_bounds")
  ELSE [m EXCEPT !.stack[m.stack_pointer] = m.program_counter,
                 !.stack_pointer = m.stack_pointer + 1,
                 !.program_counter = nnn]

\* stack_pointer -= 1 on a u8 panics in a build with overflow checks; without
\* them it wraps to 255 and the indexing of the stack panics
\* (a return that takes the oldest entry of the stack instead of the newest)
return_from_subroutine_oldest(m) ==
  IF m.stack_pointer = 0 \/ m.stack_pointer - 1 >= STACK_SIZE
  THEN panic(m, "index_out_of_bounds")
  ELSE [m EXCEPT !.stack_pointer = m.stack_pointer - 1,
                 !.program_counter = m.stack[0]]
return_from_subroutine(m) ==
  IF m.stack_pointer = 0
  THEN IF m.overflow_checks
       THEN panic(m, "arithmetic_overflow")
       ELSE panic([m EXCEPT !.stack_pointer = U8 - 1], "index_out_of_bounds")
  ELSE IF m.stack_pointer - 1 >= STACK_SIZE
       THEN panic([m EXCEPT !.stack_pointer = m.stack_pointer - 1], "index_out_of_bounds")
       ELSE [m EXCEPT !.stack_pointer = m.stack_pointer - 1,
                      !.program_counter = m.stack[m.stack_pointer - 1]]

skip_instruction_if_vx_equals_nn(m, x, nn) ==
  IF Vx(m, x) = nn THEN AdvancePc(m) ELSE m

skip_instruction_if_vx_not_equals_nn(m, x, nn) ==
  IF Vx(m, x) # nn THEN AdvancePc(m) ELSE m

\* 5xy0 that compares the register numbers instead of the registers
skip_instruction_if_vx_equals_vy_by_index(m, x, y) ==
  IF x = y THEN AdvancePc(m) ELSE m

skip_instruction_if_vx_equals_vy(m, x, y) ==
  IF Vx(m, x) = Vx(m, y) THEN AdvancePc(m) ELSE m

skip_instruction_if_vx_not_equals_vy(m, x, y) ==
  IF Vx(m, x) # Vx(m, y) THEN AdvancePc(m) ELSE m

set_vx_to_vy(m, x, y) == SetV(m, x, Vx(m, y))

\* 8xy1 that also clears VF, as the original COSMAC VIP interpreter did
binary_or_vx_with_vy_resetting_flag(m, x, y) ==
  SetV(SetV(m, x, BitOr(Vx(m, x), Vx(m, y))), 15, 0)

binary_or_vx_with_vy(m, x, y) == SetV(m, x, BitOr(Vx(m, x), Vx(m, y)))

binary_and_vx_with_vy(m, x, y) == SetV(m, x, BitAnd(Vx(m, x), Vx(m, y)))

binary_xor_vx_with_vy(m, x, y) == SetV(m, x, BitXor(Vx(m, x), Vx(m, y)))

add_vy_to_vx(m, x, y) ==
  LET x_val == Vx(m, x)
      y_val == Vx(m, y)
      m1 == SetV(m, 15, IF x_val > 255 - y_val THEN 1 ELSE 0)
  IN  SetV(m1, x, (x_val + y_val) % U8)

\* 8xy5 that reports a borrow also when the operands are equal
subtract_vy_from_vx_borrow_on_equal(m, x, y) ==
  LET x_val == Vx(m, x)
      y_val == Vx(m, y)
      m1 == SetV(m, 15, IF x_val <= y_val THEN 0 ELSE 1)
  IN  SetV(m1, x, (x_val - y_val + U8) % U8)

subtract_vy_from_vx(m, x, y) ==
  LET x_val == Vx(m, x)
      y_val == Vx(m, y)
      m1 == SetV(m, 15, IF x_val < y_val THEN 0 ELSE 1)
  IN  SetV(m1, x, (x_val - y_val + U8) % U8)

subtract_vx_from_vy_into_vx(m, x, y) ==
  LET x_val == Vx(m, x)
      y_val == Vx(m, y)
      m1 == SetV(m, 15, IF y_val < x_val THEN 0 ELSE 1)
  IN  SetV(m1, x, (y_val - x_val + U8) % U8)

\* 8xy6 that shifts Vx in place on both platforms
shift_vx_right_in_place(m, x, y) ==
  LET m2 == SetV(m, 15, BitAnd(Vx(m, x), 1))
  IN  SetV(m2, x, Vx(m2, x) \div 2)
shift_vx_right(m, x, y) ==
  LET m1 == IF m.emulator_type = "CosmacVip" THEN SetV(m, x, Vx(m, y)) ELSE m
      m2 == SetV(m1, 15, BitAnd(Vx(m1, x), 1))
  IN  SetV(m2, x, Vx(m2, x) \div 2)

shift_vx_left(m, x, y) ==
  LET m1 == IF m.emulator_type = "CosmacVip" THEN SetV(m, x, Vx(m, y)) ELSE m
      m2 == SetV(m1, 15, BitAnd(Vx(m1, x) \div 128, 1))
  IN  SetV(m2, x, (Vx(m2, x) * 2) % U8)

\* jump_with_offset with the offset counted in instructions of two bytes
jump_with_offset_in_words(m, nnn) ==
  LET offset == IF m.emulator_type = "CosmacVip"
                THEN Vx(m, 0)
                ELSE Vx(m, BitAnd(nnn, 3840) \div 256)
  IN  jump(m, (nnn + 2 * offset) % U16)

jump_with_offset(m, nnn) ==
  LET offset == IF m.emulator_type = "CosmacVip"
                THEN Vx(m, 0)
                ELSE Vx(m, BitAnd(nnn, 3840) \div 256)
  IN  jump(m, (nnn + offset) % U16)

\* random_number is the byte drawn from the entropy source
\* Cxnn that stores the drawn byte without the mask
randomize_vx_unmasked(m, x, nn, random_number) ==
  SetV([m EXCEPT !.rng = m.rng + 1], x, random_number)

randomize_vx(m, x, nn, random_number) ==
  SetV([m EXCEPT !.rng = m.rng + 1], x, BitAnd(random_number, nn))

skip_if_key_down(m, x) ==
  LET key_index == Vx(m, x)
  IN  IF key_index >= NUM_KEYS THEN panic(m, "index_out_of_bounds")
      ELSE IF m.keypad_state[key_index] = "Down" THEN AdvancePc(m) ELSE m

skip_if_key_up(m, x) ==
  LET key_index == Vx(m, x)
  IN  IF key_index >= NUM_KEYS THEN panic(m, "index_out_of_bounds")
      ELSE IF m.keypad_state[key_index] = "Up" THEN AdvancePc(m) ELSE m

\* Fx07 that reads the sound timer
set_vx_to_delay_timer_reading_sound(m, x) == SetV(m, x, m.sound_timer)

set_vx_to_delay_timer(m, x) == SetV(m, x, m.delay_timer)

set_delay_timer_to_vx(m, x) == [m EXCEPT !.delay_timer = Vx(m, x)]

\* Fx18 that loads the delay timer, as Fx15 does
set_sound_timer_to_vx_as_delay(m, x) == [m EXCEPT !.delay_timer = Vx(m, x)]

set_sound_timer_to_vx(m, x) == [m EXCEPT !.sound_timer = Vx(m, x)]

\* Fx1E that on Chip48 also reports in VF whether the sum left the ram
add_vx_to_index_register_flagged(m, x) ==
  LET sum == (m.index_register + Vx(m, x)) % U16
      m1 == [m EXCEPT !.index_register = sum]
  IN  IF m.emulator_type = "Chip48"
      THEN SetV(m1, 15, IF sum >= MEMORY_SIZE THEN 1 ELSE 0)
      ELSE m1
add_vx_to_index_register(m, x) ==
  [m EXCEPT !.index_register = (m.index_register + Vx(m, x)) % U16]

\* the keys that are Up now and Down in the snapshot of the previous Fx0A
ReleasedKeys(m) ==
  {i \in 0..(NUM_KEYS - 1) :
     m.keypad_state[i] = "Up" /\ m.previous_keypad_state[i] = "Down"}

\* position from the back: the highest matching key instead of the lowest
Min_last(S) == CHOOSE i \in S : \A j \in S : i >= j
Min(S) == CHOOSE i \in S : \A j \in S : i <= j

\* put_key_into_vx that takes the snapshot only when the wait completes
put_key_into_vx_forgetful(m, x) ==
  IF ReleasedKeys(m) # {}
  THEN [m EXCEPT !.previous_keypad_state = m.keypad_state,
                 !.variable_registers[x] = Min(ReleasedKeys(m))]
  ELSE [m EXCEPT !.program_counter = m.program_counter - 2]
put_key_into_vx(m, x) ==
  IF ReleasedKeys(m) # {}
  THEN [m EXCEPT !.previous_keypad_state = m.keypad_state,
                 !.variable_registers[x] = Min(ReleasedKeys(m))]
  ELSE IF m.program_counter < 2
       THEN IF m.overflow_checks
            THEN panic([m EXCEPT !.previous_keypad_state = m.keypad_state],
                       "arithmetic_overflow")
            ELSE [m EXCEPT !.previous_keypad_state = m.keypad_state,
                           !.program_counter = (m.program_counter - 2 + U16) % U16]
       ELSE [m EXCEPT !.previous_keypad_state = m.keypad_state,
                      !.program_counter = m.program_counter - 2]

\* Fx29 that takes the whole of Vx for the digit
point_index_register_at_font_character_unmasked(m, x) ==
  LET vx == Vx(m, x)
      character_address == FONT_START_ADDRESS + vx * 5
  IN  [m EXCEPT !.index_register = character_address]

point_index_register_at_font_character(m, x) ==
  LET vx == Vx(m, x)
      character_index == BitAnd(vx, 15)
      character_address == FONT_START_ADDRESS + character_index * 5
  IN  [m EXCEPT !.index_register = character_address]

\* ram[start_address + offset] = digit for offset 0, 1, 2, in this order;
\* the write that is out of range panics and leaves the earlier ones
RECURSIVE WriteDigits(_, _, _, _)
WriteDigits(m, start_address, digits, offset) ==
  IF offset >= Len(digits) THEN m
  ELSE IF start_address + offset >= MEMORY_SIZE
       THEN panic(m, "index_out_of_bounds")
       ELSE WriteDigits([m EXCEPT !.ram[start_address + offset] = digits[offset + 1]],
                        start_address, digits, offset + 1)

\* Fx33 that stores the ones first and the hundreds last
put_vx_decimal_digits_into_memory_ones_first(m, x) ==
  LET vx == Vx(m, x)
      digits == << (vx \div 1) % 10, (vx \div 10) % 10, (vx \div 100) % 10 >>
  IN  WriteDigits(m, m.index_register, digits, 0)

put_vx_decimal_digits_into_memory(m, x) ==
  LET vx == Vx(m, x)
      digits == << (vx \div 100) % 10, (vx \div 10) % 10, (vx \div 1) % 10 >>
  IN  WriteDigits(m, m.index_register, digits, 0)

\* index_register advanced by the size of an instruction instead of one byte
IncrementIndex_by_word(m) ==
  IF m.index_register + 2 >= U16
  THEN IF m.overflow_checks THEN panic(m, "arithmetic_overflow")
       ELSE [m EXCEPT !.index_register = (m.index_register + 2) % U16]
  ELSE [m EXCEPT !.index_register = m.index_register + 2]

\* index_register += 1 on a u16
IncrementIndex(m) ==
  IF m.index_register + 1 >= U16
  THEN IF m.overflow_checks THEN panic(m, "arithmetic_overflow")
       ELSE [m EXCEPT !.index_register = 0]
  ELSE [m EXCEPT !.index_register = m.index_register + 1]

\* the loop of store_variable_registers_to_memory with addresses wrapped
\* around the end of the ram
RECURSIVE StoreLoop_wrapping(_, _, _, _)
StoreLoop_wrapping(m, start_address, x, i) ==
  IF i > x \/ m.fault # "none" THEN m
  ELSE LET m1 == [m EXCEPT !.ram[(start_address + i) % MEMORY_SIZE] =
                             m.variable_registers[i]]
           m2 == IF m.emulator_type = "CosmacVip" THEN IncrementIndex(m1) ELSE m1
       IN  StoreLoop_wrapping(m2, start_address, x, i + 1)

RECURSIVE StoreLoop(_, _, _, _)
StoreLoop(m, start_address, x, i) ==
  IF i > x \/ m.fault # "none" THEN m
  ELSE IF start_address + i >= MEMORY_SIZE
       THEN panic(m, "index_out_of_bounds")
       ELSE LET m1 == [m EXCEPT !.ram[start_address + i] = m.variable_registers[i]]
                m2 == IF m.emulator_type = "CosmacVip" THEN IncrementIndex(m1) ELSE m1
            IN  StoreLoop(m2, start_address, x, i + 1)

store_variable_registers_to_memory(m, x) == StoreLoop(m, m.index_register, x, 0)

\* the loop of load_variable_registers_from_memory over 0..x instead of 0..=x
RECURSIVE LoadLoop_exclusive(_, _, _, _)
LoadLoop_exclusive(m, start_address, x, i) ==
  IF i >= x \/ m.fault # "none" THEN m
  ELSE IF start_address + i >= MEMORY_SIZE
       THEN panic(m, "index_out_of_bounds")
       ELSE LET m1 == [m EXCEPT !.variable_registers[i] = m.ram[start_address + i]]
                m2 == IF m.emulator_type = "CosmacVip" THEN IncrementIndex(m1) ELSE m1
            IN  LoadLoop_exclusive(m2, start_address, x, i + 1)

RECURSIVE LoadLoop(_, _, _, _)
LoadLoop(m, start_address, x, i) ==
  IF i > x \/ m.fault # "none" THEN m
  ELSE IF start_address + i >= MEMORY_SIZE
       THEN panic(m, "index_out_of_bounds")
       ELSE LET m1 == [m EXCEPT !.variable_registers[i] = m.ram[start_address + i]]
                m2 == IF m.emulator_type = "CosmacVip" THEN IncrementIndex(m1) ELSE m1
            IN  LoadLoop(m2, start_address, x, i + 1)

load_variable_registers_from_memory(m, x) == LoadLoop(m, m.index_register, x, 0)


\* the body of the inner loop of draw with the sprite pixel added to the
\* frame buffer pixel
DrawPixel_adding(m, byte, x_offset, y_offset, row, bit_index) ==
  LET pixel_x_index == x_offset + bit_index
      pixel_y_index == y_offset + row
  IN  IF pixel_x_index < DISPLAY_WIDTH /\ pixel_y_index < DISPLAY_HEIGHT
      THEN LET sprite_pixel_value == BitAnd(byte \div Pow2(7 - bit_index), 1)
               frame_buffer_pixel_index == pixel_y_index * DISPLAY_WIDTH + pixel_x_index
               frame_buffer_pixel_value == m.frame_buffer[frame_buffer_pixel_index]
               m1 == IF frame_buffer_pixel_value = 1 /\ sprite_pixel_value = 1
                     THEN SetV(m, 15, 1) ELSE m
           IN  [m1 EXCEPT !.frame_buffer[frame_buffer_pixel_index] =
                            frame_buffer_pixel_value + sprite_pixel_value]
      ELSE m

\* One sprite pixel: the body of the inner loop of draw
DrawPixel(m, byte, x_offset, y_offset, row, bit_index) ==
  LET pixel_x_index == x_offset + bit_index
      pixel_y_index == y_offset + row
  IN  IF pixel_x_index < DISPLAY_WIDTH /\ pixel_y_index < DISPLAY_HEIGHT
      THEN LET sprite_pixel_value == BitAnd(byte \div Pow2(7 - bit_index), 1)
               frame_buffer_pixel_index == pixel_y_index * DISPLAY_WIDTH + pixel_x_index
               frame_buffer_pixel_value == m.frame_buffer[frame_buffer_pixel_index]
               m1 == IF frame_buffer_pixel_value = 1 /\ sprite_pixel_value = 1
                     THEN SetV(m, 15, 1) ELSE m
           IN  [m1 EXCEPT !.frame_buffer[frame_buffer_pixel_index] =
                            BitXor(frame_buffer_pixel_value, sprite_pixel_value)]
      ELSE m

\* the inner loop of draw over the bit indices 0..6 only
RECURSIVE DrawBits_seven_columns(_, _, _, _, _, _)
DrawBits_seven_columns(m, byte, x_offset, y_offset, row, bit_index) ==
  IF bit_index >= 7 \/ m.fault # "none" THEN m
  ELSE LET m1 == DrawPixel(m, byte, x_offset, y_offset, row, bit_index)
       IN  DrawBits_seven_columns(m1, byte, x_offset, y_offset, row, bit_index + 1)

RECURSIVE DrawBits(_, _, _, _, _, _)
DrawBits(m, byte, x_offset, y_offset, row, bit_index) ==
  IF bit_index >= 8 \/ m.fault # "none" THEN m   \* (no pixel panics)
  ELSE LET m1 == DrawPixel(m, byte, x_offset, y_offset, row, bit_index)
       IN  DrawBits(m1, byte, x_offset, y_offset, row, bit_index + 1)

\* the outer loop of draw with VF reset at the start of every row
RECURSIVE DrawRows_flag_per_row(_, _, _, _, _, _)
DrawRows_flag_per_row(m, sprite_memory_address, n, x_offset, y_offset, row) ==
  IF row >= n \/ m.fault # "none" THEN m
  ELSE LET m1 == DrawBits(SetV(m, 15, 0), m.ram[sprite_memory_address + row],
                          x_offset, y_offset, row, 0)
       IN  DrawRows_flag_per_row(m1, sprite_memory_address, n,
                                 x_offset, y_offset, row + 1)

\* sprite_bytes is a slice of the ram; draw does not write the ram
RECURSIVE DrawRows(_, _, _, _, _, _)
DrawRows(m, sprite_memory_address, n, x_offset, y_offset, row) ==
  IF row >= n \/ m.fault # "none" THEN m
  ELSE LET m1 == DrawBits(m, m.ram[sprite_memory_address + row],
                          x_offset, y_offset, row, 0)
       IN  DrawRows(m1, sprite_memory_address, n, x_offset, y_offset, row + 1)

\* draw without the reset of VF
draw_keeping_flag(m, x, y, n) ==
  LET sprite_memory_address == m.index_register
  IN  IF sprite_memory_address + n > MEMORY_SIZE
      THEN panic(m, "index_out_of_bounds")
      ELSE LET x_offset == Vx(m, x) % DISPLAY_WIDTH
               y_offset == Vx(m, y) % DISPLAY_HEIGHT
           IN  DrawRows(m, sprite_memory_address, n, x_offset, y_offset, 0)
draw(m, x, y, n) ==
  LET sprite_memory_address == m.index_register
  IN  IF sprite_memory_address + n > MEMORY_SIZE
      THEN panic(m, "index_out_of_bounds")
      ELSE LET x_offset == Vx(m, x) % DISPLAY_WIDTH
               y_offset == Vx(m, y) % DISPLAY_HEIGHT
           IN  DrawRows(SetV(m, 15, 0), sprite_memory_address, n,
                        x_offset, y_offset, 0)

panic_for_invalid_opcode(m, opcode) == panic(m, "invalid_opcode")

(***************************************************************************)
(* Fetch and dispatch                                                      *)
(***************************************************************************)
\* whether both bytes of the opcode at the program counter are inside the ram
CanFetch(m) ==
  m.program_counter < MEMORY_SIZE /\ m.program_counter + 1 < MEMORY_SIZE

\* a fetch that takes the low byte first
fetch_next_opcode_little_endian(m) ==
  LET high == m.ram[m.program_counter]
      low == m.ram[m.program_counter + 1]
  IN  BitOr(low * 256, high)

\* fetch_next_opcode, where CanFetch(m)
fetch_next_opcode(m) ==
  LET high == m.ram[m.program_counter]
      low == m.ram[m.program_counter + 1]
  IN  BitOr(high * 256, low)

\* the match of execute_next_instruction
Dispatch(m, opcode, random_number) ==
  LET x == OpX(opcode)
      y == OpY(opcode)
      n == OpN(opcode)
      nn == OpNN(opcode)
      nnn == OpNNN(opcode)
      family == opcode \div 4096
  IN  IF opcode = 224 THEN clear_screen(m)
      ELSE IF opcode = 238 THEN return_from_subroutine(m)
      ELSE CASE family = 1 -> jump(m, nnn)
             [] family = 2 -> call_subroutine(m, nnn)
             [] family = 3 -> skip_instruction_if_vx_equals_nn(m, x, nn)
             [] family = 4 -> skip_instruction_if_vx_not_equals_nn(m, x, nn)
             [] family = 5 -> skip_instruction_if_vx_equals_vy(m, x, y)
             [] family = 6 -> set_variable_register(m, x, nn)
             [] family = 7 -> add_to_variable_register(m, x, nn)
             [] family = 8 ->
                  CASE n = 0 -> set_vx_to_vy(m, x, y)
                    [] n = 1 -> binary_or_vx_with_vy(m, x, y)
                    [] n = 2 -> binary_and_vx_with_vy(m, x, y)
                    [] n = 3 -> binary_xor_vx_with_vy(m, x, y)
                    [] n = 4 -> add_vy_to_vx(m, x, y)
                    [] n = 5 -> subtract_vy_from_vx(m, x, y)
                    [] n = 6 -> shift_vx_right(m, x, y)
                    [] n = 7 -> subtract_vx_from_vy_into_vx(m, x, y)
                    [] n = 14 -> shift_vx_left(m, x, y)
                    [] OTHER -> panic_for_invalid_opcode(m, opcode)
             [] family = 9 -> skip_instruction_if_vx_not_equals_vy(m, x, y)
             [] family = 10 -> set_index_register(m, nnn)
             [] family = 11 -> jump_with_offset(m, nnn)
             [] family = 12 -> randomize_vx(m, x, nn, random_number)
             [] family = 13 -> draw(m, x, y, n)
             [] family = 14 ->
                  CASE nn = 158 -> skip_if_key_down(m, x)
                    [] nn = 161 -> skip_if_key_up(m, x)
                    [] OTHER -> panic_for_invalid_opcode(m, opcode)
             [] family = 15 ->
                  CASE nn = 7 -> set_vx_to_delay_timer(m, x)
                    [] nn = 10 -> put_key_into_vx(m, x)
                    [] nn = 21 -> set_delay_timer_to_vx(m, x)
                    [] nn = 24 -> set_sound_timer_to_vx(m, x)
                    [] nn = 30 -> add_vx_to_index_register(m, x)
                    [] nn = 41 -> point_index_register_at_font_character(m, x)
                    [] nn = 51 -> put_vx_decimal_digits_into_memory(m, x)
                    [] nn = 85 -> store_variable_registers_to_memory(m, x)
                    [] nn = 101 -> load_variable_registers_from_memory(m, x)
                    [] OTHER -> panic_for_invalid_opcode(m, opcode)
             [] OTHER -> panic_for_invalid_opcode(m, opcode)

\* execute_next_instruction as a function of the machine and the entropy byte
\* execute_next_instruction that also counts the timers down after the
\* instruction
execute_next_instruction_ticking(m, random_number) ==
  IF ~CanFetch(m) THEN panic(m, "index_out_of_bounds")
  ELSE LET opcode == fetch_next_opcode(m)
           m1 == AdvancePc(m)
           m2 == IF m1.fault # "none" THEN m1 ELSE Dispatch(m1, opcode, random_number)
       IN  IF m2.fault # "none" THEN m2
           ELSE [m2 EXCEPT !.delay_timer = IF @ > 0 THEN @ - 1 ELSE 0,
                           !.sound_timer = IF @ > 0 THEN @ - 1 ELSE 0]

execute_next_instruction(m, random_number) ==
  IF ~CanFetch(m) THEN panic(m, "index_out_of_bounds")
  ELSE LET opcode == fetch_next_opcode(m)
           m1 == AdvancePc(m)
       IN  IF m1.fault # "none" THEN m1 ELSE Dispatch(m1, opcode, random_number)


(***************************************************************************)
(* The guest programs the host loads, as sequences of instruction words    *)
(***************************************************************************)
\* the bytes of a sequence of 16-bit words, big-endian
Bytes(words) ==
  [i \in 1..(2 * Len(words)) |->
     IF i % 2 = 1 THEN words[(i + 1) \div 2] \div 256 ELSE words[i \div 2] % 256]

\* 2200: a subroutine that calls itself
ProgCall == << 8704 >>
\* 2204 00EE 00EE: call, return, and a return with nothing to return to
ProgReturn == << 8708, 238, 238 >>
\* 60FF BFFF: jump with the offset 0xFF
ProgJumpOffset == << 24831, 49151 >>
\* A050 60AB F033 F055: decimal digits and registers stored at 0x050
ProgFont == << 41040, 24747, 61491, 61525 >>
\* AFFF 6012 F155: registers stored across the end of the ram
ProgStoreEdge == << 45055, 24594, 61781 >>
\* AFFF F165: registers loaded across the end of the ram
ProgLoadEdge == << 45055, 61797 >>
\* AFFE 60FF F033: decimal digits stored across the end of the ram
ProgBcdEdge == << 45054, 24831, 61491 >>
\* AFFF 6001 F01E D000 F01E D000: empty sprites at 0x1000 and 0x1001
ProgDrawBeyond == << 45055, 24577, 61470, 53248, 61470, 53248 >>
\* AFFF D002: a sprite across the end of the ram
ProgDrawEdge == << 45055, 53250 >>
\* 5011 0000 9011 8008: words outside the instruction table
ProgInvalid == << 20497, 0, 36881, 32776 >>
\* A050 D225 603E 611E D015 D015 00E0: glyph 0 at (0,0), twice at (62,30), clear
ProgDraw == << 41040, 53797, 24638, 24862, 53269, 53269, 224 >>
\* 6002 F015 F018 F007 1206: load both timers with 2 and poll the delay timer
ProgTimer == << 24578, 61461, 61464, 61447, 4614 >>
\* F00A 1200: wait for a key, again and again
ProgKey == << 61450, 4608 >>
\* C0FF E09E: a random V0, then the test of the key V0
ProgRandom == << 49407, 57502 >>

Programs ==
  { ProgCall, ProgReturn, ProgJumpOffset, ProgFont, ProgStoreEdge,
    ProgLoadEdge, ProgBcdEdge, ProgDrawBeyond, ProgDrawEdge, ProgInvalid,
    ProgDraw, ProgTimer, ProgKey, ProgRandom }

\* the bytes the entropy source may yield
RandomBytes == (255 - MaxRandom)..255

\* the keys the host presses and releases
HostKeys == 0..MaxKey

(***************************************************************************)
(* The public methods, as operators and as actions                         *)
(***************************************************************************)
\* load_program that copies as much of the program as fits
load_program_truncating(m, program) ==
  LET start_address == PROGRAM_START_ADDRESS
  IN  [m EXCEPT !.ram =
         [a \in 0..(MEMORY_SIZE - 1) |->
            IF a >= start_address /\ a < start_address + Len(program)
            THEN program[a - start_address + 1] ELSE m.ram[a]]]

load_program(m, program) ==
  LET start_address == PROGRAM_START_ADDRESS
  IN  IF start_address + Len(program) > MEMORY_SIZE
      THEN panic(m, "index_out_of_bounds")
      ELSE [m EXCEPT !.ram =
              [a \in 0..(MEMORY_SIZE - 1) |->
                 IF a >= start_address /\ a < start_address + Len(program)
                 THEN program[a - start_address + 1] ELSE m.ram[a]]]

key_down(m, key) == [m EXCEPT !.keypad_state[key] = "Down"]

\* key_up that also records the key as held at the previous look of Fx0A
key_up_recording(m, key) ==
  [m EXCEPT !.keypad_state[key] = "Up", !.previous_keypad_state[key] = "Down"]

key_up(m, key) == [m EXCEPT !.keypad_state[key] = "Up"]

\* decrement_timers without the tests for zero, on wrapping u8
decrement_timers_wrapping(m) ==
  [m EXCEPT !.delay_timer = (m.delay_timer - 1 + U8) % U8,
            !.sound_timer = (m.sound_timer - 1 + U8) % U8]

decrement_timers(m) ==
  LET m1 == IF m.delay_timer > 0
            THEN [m EXCEPT !.delay_timer = m.delay_timer - 1] ELSE m
  IN  IF m1.sound_timer > 0
      THEN [m1 EXCEPT !.sound_timer = m1.sound_timer - 1] ELSE m1

is_playing_sound(m) == m.sound_timer > 0

key_state(m, key) == m.keypad_state[key]

\* the fields of the machine after a method has run
Becomes(s) ==
  /\ ram' = s.ram
  /\ frame_buffer' = s.frame_buffer
  /\ stack' = s.stack
  /\ stack_pointer' = s.stack_pointer
  /\ delay_timer' = s.delay_timer
  /\ sound_timer' = s.sound_timer
  /\ program_counter' = s.program_counter
  /\ index_register' = s.index_register
  /\ variable_registers' = s.variable_registers
  /\ emulator_type' = s.emulator_type
  /\ keypad_state' = s.keypad_state
  /\ previous_keypad_state' = s.previous_keypad_state
  /\ rng' = s.rng
  /\ fault' = s.fault
  /\ overflow_checks' = s.overflow_checks

\* the instruction at the program counter is an Fx0A
AtKeyWait(m) ==
  /\ CanFetch(m)
  /\ fetch_next_opcode(m) \div 4096 = 15
  /\ OpNN(fetch_next_opcode(m)) = 10

\* the instruction at the program counter is an Fx15
LoadsDelay(m) ==
  /\ CanFetch(m)
  /\ fetch_next_opcode(m) \div 4096 = 15
  /\ OpNN(fetch_next_opcode(m)) = 21

\* the instruction at the program counter is an Fx18
LoadsSound(m) ==
  /\ CanFetch(m)
  /\ fetch_next_opcode(m) \div 4096 = 15
  /\ OpNN(fetch_next_opcode(m)) = 24

DownKeys(m) == {k \in 0..(NUM_KEYS - 1) : m.keypad_state[k] = "Down"}

\* a machine fresh from new, in a host built with one of the programs: host is
\* "any" for a caller that uses the public methods in any order, "load" for
\* main, which is about to call load_program
InitHost(roms, host, platforms) ==
  \E et \in platforms, oc \in BOOLEAN :
    LET s == new(et, oc)
    IN  /\ ram = s.ram
        /\ frame_buffer = s.frame_buffer
        /\ stack = s.stack
        /\ stack_pointer = s.stack_pointer
        /\ delay_timer = s.delay_timer
        /\ sound_timer = s.sound_timer
        /\ program_counter = s.program_counter
        /\ index_register = s.index_register
        /\ variable_registers = s.variable_registers
        /\ emulator_type = s.emulator_type
        /\ keypad_state = s.keypad_state
        /\ previous_keypad_state = s.previous_keypad_state
        /\ rng = s.rng
        /\ fault = s.fault
        /\ overflow_checks = s.overflow_checks
        /\ rom \in roms
        /\ waiting = FALSE
        /\ wait_down = {}
        /\ calls = << >>
        /\ last_key_call = [k \in 0..(NUM_KEYS - 1) |-> "Up"]
        /\ sound_loaded = 0
        /\ sound_ticks = 0
        /\ delay_loaded = 0
        /\ delay_ticks = 0
        /\ host_at = host
        /\ counter = 0
        /\ polled = 0
        /\ since_tick = -1

InitRom(roms) == InitHost(roms, "any", EmulatorType)

\* the same, the programs given as sequences of instruction words
InitOf(programs) == InitRom({Bytes(words) : words \in programs})

Init == InitOf(Programs)

\* main calls load_program once, before its loop
LoadProgram ==
  /\ fault = "none"
  /\ host_at \in {"any", "load"}
  /\ Becomes(load_program(Chip8, rom))
  /\ host_at' = IF host_at = "any" THEN "any" ELSE "execute"
  /\ UNCHANGED << rom, waiting, wait_down, calls, last_key_call, sound_loaded,
                  sound_ticks, delay_loaded, delay_ticks, counter, polled,
                  since_tick >>

\* main's for loop passes every key of key_code_map once (here in the order
\* of the key indices) and calls key_down for a key that the window reports
\* down while key_state is Up, key_up for one reported up while it is Down
KeyDown ==
  /\ fault = "none"
  /\ host_at \in {"any", "keys"}
  /\ \E key \in HostKeys :
       /\ host_at = "keys" => (key >= polled /\ key_state(Chip8, key) = "Up")
       /\ Becomes(key_down(Chip8, key))
       /\ last_key_call' = [last_key_call EXCEPT ![key] = "Down"]
       /\ polled' = IF host_at = "keys" THEN key + 1 ELSE polled
  /\ UNCHANGED << rom, waiting, wait_down, calls, sound_loaded, sound_ticks,
                  delay_loaded, delay_ticks, host_at, counter, since_tick >>

KeyUp ==
  /\ fault = "none"
  /\ host_at \in {"any", "keys"}
  /\ \E key \in HostKeys :
       /\ host_at = "keys" => (key >= polled /\ key_state(Chip8, key) = "Down")
       /\ Becomes(key_up(Chip8, key))
       /\ last_key_call' = [last_key_call EXCEPT ![key] = "Up"]
       /\ polled' = IF host_at = "keys" THEN key + 1 ELSE polled
  /\ UNCHANGED << rom, waiting, wait_down, calls, sound_loaded, sound_ticks,
                  delay_loaded, delay_ticks, host_at, counter, since_tick >>

\* what main does after decrement_timers, and after an execution with
\* counter % 12 # 0: counter = counter.wrapping_add(1), then the for loop
AfterTimers ==
  /\ counter' = (counter + 1) % U8
  /\ host_at' = "keys"
  /\ polled' = 0

\* in main decrement_timers is the end of the block under counter % 12 == 0
DecrementTimers ==
  /\ fault = "none"
  /\ host_at \in {"any", "timers"}
  /\ Becomes(decrement_timers(Chip8))
  /\ sound_ticks' = IF sound_ticks < sound_loaded THEN sound_ticks + 1 ELSE sound_ticks
  /\ delay_ticks' = IF delay_ticks < delay_loaded THEN delay_ticks + 1 ELSE delay_ticks
  /\ IF host_at = "any" THEN UNCHANGED main_vars
     ELSE AfterTimers /\ since_tick' = 0
  /\ UNCHANGED << rom, waiting, wait_down, calls, last_key_call, sound_loaded,
                  delay_loaded >>

\* in main the execution opens an iteration of the loop (the first, or one
\* after the for loop over the keys), and the test of counter follows it
ExecuteNextInstruction ==
  /\ fault = "none"
  /\ host_at \in {"any", "execute", "keys"}
  /\ IF host_at = "any" THEN UNCHANGED main_vars
     ELSE /\ since_tick' = IF since_tick < 0 THEN since_tick ELSE since_tick + 1
          /\ IF counter % InstructionsPerTick = 0
             THEN host_at' = "timers" /\ UNCHANGED << counter, polled >>
             ELSE AfterTimers
  /\ \E random_number \in RandomBytes :
     \E s \in {execute_next_instruction(Chip8, random_number)} :
       LET rewound == AtKeyWait(Chip8) /\ s.fault = "none"
                        /\ s.program_counter = program_counter
       IN  /\ Becomes(s)
           /\ waiting' = rewound
           /\ wait_down' = IF rewound
                           THEN (IF waiting THEN wait_down ELSE {}) \cup DownKeys(Chip8)
                           ELSE {}
           /\ calls' = IF ~CanFetch(Chip8) \/ s.fault # "none" THEN calls
                       ELSE IF fetch_next_opcode(Chip8) \div 4096 = 2
                            THEN Append(calls, program_counter + 2)
                       ELSE IF fetch_next_opcode(Chip8) = 238 /\ calls # << >>
                            THEN SubSeq(calls, 1, Len(calls) - 1)
                       ELSE calls
           /\ sound_loaded' = IF LoadsSound(Chip8) /\ s.fault = "none"
                               THEN Vx(Chip8, OpX(fetch_next_opcode(Chip8)))
                               ELSE sound_loaded
           /\ sound_ticks' = IF LoadsSound(Chip8) /\ s.fault = "none" THEN 0 ELSE sound_ticks
           /\ delay_loaded' = IF LoadsDelay(Chip8) /\ s.fault = "none"
                               THEN Vx(Chip8, OpX(fetch_next_opcode(Chip8)))
                               ELSE delay_loaded
           /\ delay_ticks' = IF LoadsDelay(Chip8) /\ s.fault = "none" THEN 0 ELSE delay_ticks
  /\ UNCHANGED << rom, last_key_call >>

\* an execution of a waiting Fx0A that finds released a key that was Down at
\* the execution before
DeliverRelease ==
  /\ waiting
  /\ AtKeyWait(Chip8)
  /\ \E k \in wait_down : keypad_state[k] = "Up"
  /\ ExecuteNextInstruction
Next ==
  \/ LoadProgram
  \/ KeyDown
  \/ KeyUp
  \/ DecrementTimers
  \/ ExecuteNextInstruction

Spec == Init /\ [][Next]_vars

\* 2204 1202, then subroutines at 0x204, 0x208, ..: each calls the next and
\* returns, the last one only returns; STACK_SIZE calls are nested
ProgNested ==
  << 8708, 4610 >> \o
  [j \in 1..(2 * STACK_SIZE - 1) |->
     IF j % 2 = 1 /\ j < 2 * STACK_SIZE - 1
     THEN 8192 + PROGRAM_START_ADDRESS + 4 + 4 * ((j + 1) \div 2)
     ELSE 238]

CallPrograms == { ProgCall, ProgReturn, ProgNested }

InitCalls == InitOf(CallPrograms)

SpecCalls == InitCalls /\ [][Next]_vars

\* 607E 613E A200 D015 6F21 DFF5 6F21 DFF0: the bytes of the program itself
\* as sprite, at coordinates beyond the display and at coordinates read from VF
ProgDrawWrap == << 24702, 24894, 41472, 53269, 28449, 57333, 28449, 57328 >>

DrawPrograms == { ProgDraw, ProgDrawWrap, ProgDrawBeyond }

InitDraw == InitOf(DrawPrograms)

SpecDraw == InitDraw /\ [][Next]_vars

\* 600A 61F8 3000 400A 5010 9000 70FA 8210 8201 8202 8213 8214 8015 8017
\* 6001 E0A1 F029 F01E 00E0: the skips, the arithmetic, a key test, a glyph
ProgTour ==
  << 24586, 25080, 12288, 16394, 20496, 36864, 28922, 33296, 33281, 33282,
     33299, 33300, 32789, 32791, 24577, 57505, 61481, 61470, 224 >>
\* 6025 6193 8016 801E 8116 80F6 80FE 811E: shifts with y # x, y = x, y = 0xF
ProgShift == << 24613, 24979, 32790, 32798, 33046, 33014, 33022, 33054 >>
\* 6004 6208 B2F0: jump with offset where V0 and V2 differ
ProgJumpX == << 24580, 25096, 45808 >>
\* 6012 6134 6256 A300 F155 6000 6100 6200 A300 F165: store V0..V1, zero the
\* registers, load V0..V1
ProgRoundTrip ==
  << 24594, 24884, 25174, 41728, 61781, 24576, 24832, 25088, 41728, 61797 >>

\* C10F C2F0 7101: two draws under masks with cleared bits, then an addition
ProgDice == << 49423, 49904, 28929 >>

PlatformPrograms ==
  { ProgDice, ProgTour, ProgShift, ProgJumpOffset, ProgJumpX, ProgRoundTrip, ProgFont,
    ProgLoadEdge, ProgDrawBeyond, ProgDraw, ProgReturn, ProgInvalid,
    ProgTimer, ProgRandom }

InitPlatforms == InitOf(PlatformPrograms)

SpecPlatforms == InitPlatforms /\ [][Next]_vars

\* the host built with the program that waits for keys; its loop executes an
\* instruction in every iteration and samples the keys once between two
\* executions, so an execution sees every key state the host delivers
\* 6001 F018 F00A 1204: start the sound timer, then wait for keys
ProgKeyBeep == << 24577, 61464, 61450, 4612 >>

KeyPrograms == { ProgKey, ProgKeyBeep }

InitKeys == InitOf(KeyPrograms)

SpecKeys ==
  /\ InitKeys
  /\ [][Next]_vars
  /\ SF_vars(DeliverRelease)


(***************************************************************************)
(* Properties                                                              *)
(***************************************************************************)
\* the opcode the next execute_next_instruction fetches (where CanFetch)
NextOpcode == fetch_next_opcode(Chip8)

FontIntact(r) ==
  \A a \in FONT_START_ADDRESS..(FONT_START_ADDRESS + Len(FONT) - 1) :
     r[a] = FONT[a - FONT_START_ADDRESS + 1]

\* C1, as stated: in every reachable state stack_pointer is within [0,16).
C1_StackPointerBelowStackSize == stack_pointer \in 0..(STACK_SIZE - 1)

\* C1, amended: while no fault has occurred stack_pointer is within [0,16],
\* 16 being the full stack; the only other value it ever takes is 255, in the
\* machine left behind by a panicking 00EE of a build without overflow checks.
C1_StackPointerAtMostStackSize ==
  \/ stack_pointer \in 0..STACK_SIZE
  \/ fault # "none" /\ ~overflow_checks /\ stack_pointer = U8 - 1

C1_Witness == fault = "none" /\ stack_pointer = STACK_SIZE

\* the cases of C2: a call with 16 return addresses on the stack, a return
\* with none
StackFaultCase ==
  /\ CanFetch(Chip8)
  /\ \/ NextOpcode \div 4096 = 2 /\ stack_pointer = STACK_SIZE
     \/ NextOpcode = 238 /\ stack_pointer = 0

\* C2: 2nnn on a full stack and 00EE on an empty stack end in a fault that
\* neither wraps stack_pointer, nor overwrites a stack entry, nor continues.
C2_StackFaultsAreClean ==
  [][(ExecuteNextInstruction /\ StackFaultCase)
       => (fault' # "none" /\ stack_pointer' = stack_pointer /\ stack' = stack)]_vars

\* C3, as stated: in every non-faulted state program_counter is within [0,4096).
C3_PcBelowMemorySize ==
  fault = "none" => program_counter \in 0..(MEMORY_SIZE - 1)

\* C3, amended: in every non-faulted state program_counter is within
\* [0, 4096 + 255): it exceeds 4095 by at most the 255 that Bnnn adds to 0xFFF.
C3_PcWithinJumpRange ==
  fault = "none" => program_counter \in 0..(MEMORY_SIZE - 1 + U8 - 1)

C3_Witness == fault = "none" /\ program_counter = MEMORY_SIZE - 1 + U8 - 1

\* C4: the bytes 0x050..0x09F always equal the font table.
C4_FontNeverOverwritten == FontIntact(ram)

\* C5: an execute_next_instruction that faults leaves the machine as it was
\* before the call.
C5_FaultsAreAtomic ==
  [][(ExecuteNextInstruction /\ fault' # "none") => machine_vars' = machine_vars]_vars

\* the instruction table of the specification
InInstructionTable(w) ==
  LET family == w \div 4096
      n == w % 16
      nn == w % 256
  IN  \/ w = 224
      \/ w = 238
      \/ family \in {1, 2, 3, 4, 6, 7, 10, 11, 12, 13}
      \/ family \in {5, 9} /\ n = 0
      \/ family = 8 /\ n \in {0, 1, 2, 3, 4, 5, 6, 7, 14}
      \/ family = 14 /\ nn \in {158, 161}
      \/ family = 15 /\ nn \in {7, 10, 21, 24, 30, 41, 51, 85, 101}

\* C6: a word outside the instruction table ends in an invalid-instruction
\* fault and no instruction body runs (only the program counter has advanced).
C6_InvalidWordsFault ==
  [][(ExecuteNextInstruction /\ CanFetch(Chip8) /\ ~InInstructionTable(NextOpcode))
       => /\ fault' = "invalid_opcode"
          /\ program_counter' = program_counter + 2]_vars

\* the cases of C7: the next instruction reaches outside the ram
OutOfRangeAccess ==
  \/ ~CanFetch(Chip8)
  \/ /\ CanFetch(Chip8)
     /\ LET w == NextOpcode
        IN  \/ w \div 4096 = 13 /\ index_register + OpN(w) > MEMORY_SIZE
            \/ w \div 4096 = 15 /\ OpNN(w) = 51 /\ index_register + 2 >= MEMORY_SIZE
            \/ w \div 4096 = 15 /\ OpNN(w) \in {85, 101}
                 /\ index_register + OpX(w) >= MEMORY_SIZE

\* C7: every access outside [0,4096) ends in a fault; the bytes written
\* before it are at the addresses asked for, none at a wrapped address.
C7_OutOfRangeAccessFaults ==
  [][(ExecuteNextInstruction /\ OutOfRangeAccess)
       => /\ fault' = "index_out_of_bounds"
          /\ \A a \in 0..(MEMORY_SIZE - 1) :
               ram'[a] # ram[a] => a >= index_register]_vars

C7_Witness ==
  /\ fault = "index_out_of_bounds"
  /\ ram[MEMORY_SIZE - 1] = 18
  /\ index_register \in {MEMORY_SIZE - 1, MEMORY_SIZE}

\* C8: both timers stay in 0..255, and decrement_timers lowers a timer that
\* is > 0 by exactly 1 and leaves a timer that is 0 at 0.
C8_TimersCountDownToZero ==
  [][/\ delay_timer' \in 0..(U8 - 1)
     /\ sound_timer' \in 0..(U8 - 1)
     /\ DecrementTimers =>
          /\ delay_timer' = IF delay_timer > 0 THEN delay_timer - 1 ELSE 0
          /\ sound_timer' = IF sound_timer > 0 THEN sound_timer - 1 ELSE 0]_vars

C8_Witness == delay_timer = 0 /\ sound_timer = 1

\* C9: every entry of the frame buffer is 0 or 1.
C9_PixelsAreBits ==
  \A i \in 0..(DISPLAY_WIDTH * DISPLAY_HEIGHT - 1) : frame_buffer[i] \in {0, 1}

C9_Witness ==
  /\ frame_buffer[0] = 1
  /\ frame_buffer[30 * DISPLAY_WIDTH + 62] = 1
  /\ variable_registers[15] = 0

\* C10: an Fx0A completes only with a key that was down at an execution of
\* this same waiting Fx0A and is up now.
C10_KeyWaitCompletesOnOwnPress ==
  [][(ExecuteNextInstruction /\ AtKeyWait(Chip8) /\ fault' = "none"
        /\ program_counter' = program_counter + 2)
       => /\ waiting
          /\ variable_registers'[OpX(NextOpcode)] \in wait_down
          /\ keypad_state[variable_registers'[OpX(NextOpcode)]] = "Up"]_vars

C13_CallsReturnInLifoOrder ==
  [][(ExecuteNextInstruction /\ CanFetch(Chip8) /\ fault' = "none") =>
       /\ NextOpcode \div 4096 = 2 =>
            /\ stack' = [stack EXCEPT ![stack_pointer] = program_counter + 2]
            /\ stack_pointer' = stack_pointer + 1
            /\ program_counter' = OpNNN(NextOpcode)
       /\ NextOpcode = 238 =>
            /\ stack_pointer' = stack_pointer - 1
            /\ program_counter' = stack[stack_pointer - 1]
            /\ stack' = stack
            /\ calls # << >>
            /\ program_counter' = calls[Len(calls)]
       /\ stack_pointer' = Len(calls')
       /\ Len(calls') <= STACK_SIZE]_vars

\* STACK_SIZE nested calls have all returned
C13_Witness ==
  /\ rom = Bytes(ProgNested)
  /\ fault = "none"
  /\ calls = << >>
  /\ stack_pointer = 0
  /\ program_counter = PROGRAM_START_ADDRESS + 2
  /\ stack[0] = PROGRAM_START_ADDRESS + 2
  /\ stack[STACK_SIZE - 1] = PROGRAM_START_ADDRESS + 4 * STACK_SIZE - 2

\* the instruction at the program counter is a Dxyn that does not fault
AtDraw ==
  /\ fault = "none"
  /\ CanFetch(Chip8)
  /\ NextOpcode \div 4096 = 13
  /\ index_register + OpN(NextOpcode) <= MEMORY_SIZE

\* bit (7 - c) of a byte
SpriteBit(byte, c) == (byte \div (2 ^ (7 - c))) % 2

\* C14: Dxyn is the reference blit: with ax = Vx mod 64 and ay = Vy mod 32
\* (read before VF is reset), frame_buffer[(ay+r)*64 + ax+c] becomes its old
\* value XOR bit (7-c) of ram[index_register+r] for every r < n, c < 8 with
\* ax+c < 64 and ay+r < 32; every other entry is unchanged (no wrapping).
C14_DrawIsReferenceBlit ==
  [][(ExecuteNextInstruction /\ AtDraw) =>
       LET n == OpN(NextOpcode)
           ax == variable_registers[OpX(NextOpcode)] % 64
           ay == variable_registers[OpY(NextOpcode)] % 32
       IN  /\ fault' = "none"
           /\ \A i \in 0..2047 :
                LET c == (i % 64) - ax
                    r == (i \div 64) - ay
                IN  frame_buffer'[i] =
                      IF c \in 0..7 /\ r \in 0..(n - 1)
                      THEN (frame_buffer[i]
                              + SpriteBit(ram[index_register + r], c)) % 2
                      ELSE frame_buffer[i]]_vars

\* the sprite 60 7E 61 3E A2 has been drawn at (126 mod 64, 62 mod 32) and,
\* with its coordinates read from VF, at (33, 33 mod 32)
C14_Witness ==
  /\ rom = Bytes(ProgDrawWrap)
  /\ fault = "none"
  /\ frame_buffer[30 * 64 + 63] = 1
  /\ frame_buffer[31 * 64 + 63] = 1
  /\ frame_buffer[0] = 0
  /\ frame_buffer[3 * 64 + 33 + 7] = 1
  /\ frame_buffer[2 * 64 + 33 + 7] = 0

\* C15: after Dxyn, VF is 1 if and only if some target pixel on the display
\* was 1 before the draw and its sprite bit is 1; otherwise VF is 0, whatever
\* it held before (so also for n = 0, and whatever the clipped pixels are).
C15_DrawCollisionFlag ==
  [][(ExecuteNextInstruction /\ AtDraw) =>
       LET n == OpN(NextOpcode)
           ax == variable_registers[OpX(NextOpcode)] % 64
           ay == variable_registers[OpY(NextOpcode)] % 32
           collision ==
             \E r \in 0..(n - 1), c \in 0..7 :
               /\ ax + c < 64
               /\ ay + r < 32
               /\ frame_buffer[(ay + r) * 64 + ax + c] = 1
               /\ SpriteBit(ram[index_register + r], c) = 1
       IN  variable_registers'[15] = IF collision THEN 1 ELSE 0]_vars

\* DFF0 has run with VF = 0x21: no row, no collision, VF = 0
C15_Witness ==
  /\ rom = Bytes(ProgDrawWrap)
  /\ fault = "none"
  /\ program_counter = PROGRAM_START_ADDRESS + 16
  /\ variable_registers[15] = 0
  /\ frame_buffer[3 * 64 + 33 + 7] = 1

\* C16: drawing is an involution: the same Dxyn (x, y other than 0xF) executed
\* twice, with index_register, Vx, Vy and the sprite unchanged, restores the
\* frame buffer; on a cleared frame buffer and with a sprite bit set on the
\* display, VF is 0 after the first draw and 1 after the second.
C16_DrawTwiceRestores ==
  (AtDraw /\ OpX(NextOpcode) # 15 /\ OpY(NextOpcode) # 15) =>
    \A random_number \in RandomBytes :
      LET n == OpN(NextOpcode)
          ax == variable_registers[OpX(NextOpcode)] % 64
          ay == variable_registers[OpY(NextOpcode)] % 32
          first == execute_next_instruction(Chip8, random_number)
          second == execute_next_instruction(
                      [first EXCEPT !.program_counter = program_counter],
                      random_number)
          cleared == \A i \in 0..2047 : frame_buffer[i] = 0
          visible == \E r \in 0..(n - 1), c \in 0..7 :
                       /\ ax + c < 64
                       /\ ay + r < 32
                       /\ SpriteBit(ram[index_register + r], c) = 1
      IN  /\ first.fault = "none" /\ second.fault = "none"
          /\ first.index_register = index_register
          /\ first.ram = ram
          /\ first.variable_registers[OpX(NextOpcode)] % 64 = ax
          /\ first.variable_registers[OpY(NextOpcode)] % 32 = ay
          /\ second.frame_buffer = frame_buffer
          /\ (cleared /\ visible) =>
               /\ first.variable_registers[15] = 0
               /\ second.variable_registers[15] = 1

\* D015 has run twice in a row at (62, 30): the glyph drawn earlier at (0, 0)
\* is all that is on the display, and VF = 1
C16_Witness ==
  /\ rom = Bytes(ProgDraw)
  /\ fault = "none"
  /\ program_counter = PROGRAM_START_ADDRESS + 12
  /\ variable_registers[15] = 1
  /\ frame_buffer[0] = 1
  /\ \A i \in (30 * 64)..2047 : frame_buffer[i] = 0

\* the five families of instruction words that depend on the platform
Quirked(w) ==
  \/ w \div 4096 = 8 /\ w % 16 \in {6, 14}
  \/ w \div 4096 = 11
  \/ w \div 4096 = 15 /\ w % 256 \in {85, 101}

\* the machine m on the platform et
OnPlatform(m, et) == [m EXCEPT !.emulator_type = et]

\* C17: for every instruction word outside 8xy6, 8xyE, Bnnn, Fx55 and Fx65,
\* executing it on a CosmacVip machine and on a Chip48 machine that are in
\* the same state otherwise, with the same entropy byte, gives the same
\* successor state or the same fault.
C17_PlatformsAgreeOutsideQuirks ==
  (fault = "none" /\ (CanFetch(Chip8) => ~Quirked(NextOpcode))) =>
    \A random_number \in RandomBytes :
      OnPlatform(execute_next_instruction(OnPlatform(Chip8, "CosmacVip"),
                                          random_number), "Chip48")
        = execute_next_instruction(OnPlatform(Chip8, "Chip48"), random_number)

\* Fx1E has moved index_register beyond the ram, with VF untouched
C17_Witness ==
  /\ rom = Bytes(ProgDrawBeyond)
  /\ fault = "none"
  /\ program_counter = PROGRAM_START_ADDRESS + 6
  /\ index_register = MEMORY_SIZE
  /\ variable_registers[15] = 0

\* C18: 8xy6 and 8xyE with x # 0xF: the shifted value v is Vy on CosmacVip
\* and the old Vx on Chip48; afterwards Vx = v >> 1 and VF = bit 0 of v for
\* 8xy6, Vx = (v << 1) mod 256 and VF = bit 7 of v for 8xyE; no other
\* register changes.
C18_ShiftQuirk ==
  [][(ExecuteNextInstruction /\ CanFetch(Chip8)
        /\ NextOpcode \div 4096 = 8 /\ NextOpcode % 16 \in {6, 14}
        /\ OpX(NextOpcode) # 15) =>
       LET x == OpX(NextOpcode)
           y == OpY(NextOpcode)
           v == IF emulator_type = "CosmacVip"
                THEN variable_registers[y] ELSE variable_registers[x]
       IN  /\ fault' = "none"
           /\ program_counter' = program_counter + 2
           /\ variable_registers'[x] =
                IF NextOpcode % 16 = 6 THEN v \div 2 ELSE (v * 2) % 256
           /\ variable_registers'[15] =
                IF NextOpcode % 16 = 6 THEN v % 2 ELSE v \div 128
           /\ \A i \in 0..15 :
                i \notin {x, 15} => variable_registers'[i] = variable_registers[i]]_vars

\* 8016 on CosmacVip with V0 = 0x25, V1 = 0x93: V0 = 0x93 >> 1, VF = 1
C18_Witness ==
  /\ rom = Bytes(ProgShift)
  /\ emulator_type = "CosmacVip"
  /\ fault = "none"
  /\ program_counter = PROGRAM_START_ADDRESS + 6
  /\ variable_registers[0] = 73
  /\ variable_registers[1] = 147
  /\ variable_registers[15] = 1

\* C19: Bnnn sets program_counter to (nnn + V0) mod 65536 on CosmacVip and to
\* (nnn + Vx) mod 65536 on Chip48, x being the high nibble of nnn; no register
\* and no stack entry changes.
C19_JumpWithOffsetQuirk ==
  [][(ExecuteNextInstruction /\ CanFetch(Chip8) /\ NextOpcode \div 4096 = 11) =>
       LET nnn == NextOpcode % 4096
           offset == IF emulator_type = "CosmacVip"
                     THEN variable_registers[0]
                     ELSE variable_registers[nnn \div 256]
       IN  /\ fault' = "none"
           /\ program_counter' = (nnn + offset) % 65536
           /\ variable_registers' = variable_registers
           /\ stack' = stack
           /\ stack_pointer' = stack_pointer]_vars

\* B2F0 on Chip48 with V0 = 4 and V2 = 8 has jumped to 0x2F0 + V2
C19_Witness ==
  /\ rom = Bytes(ProgJumpX)
  /\ emulator_type = "Chip48"
  /\ fault = "none"
  /\ variable_registers[0] = 4
  /\ variable_registers[2] = 8
  /\ program_counter = 760

\* C20: store/load round trip, on both platforms and for every x in 0..15:
\* Fx55 with index_register = a (a + x <= 4095), then all registers zeroed
\* and index_register set back to a, then Fx65 with the same x, leaves
\* V0..Vx at their values before the store and every register above x at 0.
C20_StoreLoadRoundTrip ==
  fault = "none" =>
    \A x \in 0..15, random_number \in RandomBytes :
      index_register + x <= 4095 =>
        LET stored == Dispatch(Chip8, 61525 + 256 * x, random_number)
            zeroed == [stored EXCEPT
                         !.variable_registers = [i \in 0..15 |-> 0],
                         !.index_register = index_register]
            loaded == Dispatch(zeroed, 61541 + 256 * x, random_number)
        IN  /\ stored.fault = "none"
            /\ loaded.fault = "none"
            /\ \A i \in 0..15 :
                 loaded.variable_registers[i] =
                   IF i <= x THEN variable_registers[i] ELSE 0

\* F155 at 0x300, the registers zeroed, F165 at 0x300: V0 and V1 are back,
\* V2 is not
C20_Witness ==
  /\ rom = Bytes(ProgRoundTrip)
  /\ fault = "none"
  /\ program_counter = PROGRAM_START_ADDRESS + 20
  /\ variable_registers[0] = 18
  /\ variable_registers[1] = 52
  /\ variable_registers[2] = 0
  /\ ram[768] = 18
  /\ ram[769] = 52

\* C21: Fx55 and Fx65 started with index_register = a, where the addresses
\* a..a+x are in the ram: Fx55 leaves ram[a+i] = Vi for every i in 0..x, every
\* other ram byte and every register unchanged; Fx65 leaves Vi = ram[a+i] for
\* every i in 0..x, every register above x and the ram unchanged; afterwards
\* index_register = a + x + 1 on CosmacVip and index_register = a on Chip48.
C21_StoreLoadTransfer ==
  [][(ExecuteNextInstruction /\ CanFetch(Chip8)
        /\ NextOpcode \div 4096 = 15 /\ OpNN(NextOpcode) \in {85, 101}
        /\ index_register + OpX(NextOpcode) <= MEMORY_SIZE - 1) =>
       LET x == OpX(NextOpcode)
           a == index_register
       IN  /\ fault' = "none"
           /\ index_register' = IF emulator_type = "CosmacVip" THEN a + x + 1 ELSE a
           /\ OpNN(NextOpcode) = 85 =>
                /\ \A i \in 0..x : ram'[a + i] = variable_registers[i]
                /\ \A b \in 0..(MEMORY_SIZE - 1) :
                     (b < a \/ b > a + x) => ram'[b] = ram[b]
                /\ variable_registers' = variable_registers
           /\ OpNN(NextOpcode) = 101 =>
                /\ \A i \in 0..x : variable_registers'[i] = ram[a + i]
                /\ \A i \in 0..15 : i > x => variable_registers'[i] = variable_registers[i]
                /\ ram' = ram]_vars

\* F155 on CosmacVip at index_register = 0x300 with V0 = 0x12, V1 = 0x34 has
\* stored both and left index_register = 0x302
C21_Witness ==
  /\ rom = Bytes(ProgRoundTrip)
  /\ emulator_type = "CosmacVip"
  /\ fault = "none"
  /\ program_counter = PROGRAM_START_ADDRESS + 10
  /\ index_register = 770
  /\ ram[768] = 18
  /\ ram[769] = 52
  /\ ram[770] = 0
  /\ variable_registers[2] = 86

(***************************************************************************)
(* Instructions checked over all the values of their operands              *)
(***************************************************************************)
\* 60C8 6164 7038 70FF 8014 6F05 80F4 8004 8004: sums that wrap and sums that
\* do not, with y # x, y = 0xF and y = x
ProgAdd == << 24776, 24932, 28728, 28927, 32788, 28421, 33012, 32772, 32772 >>

\* 6005 610A 8015 8015 8017 8017 8005 6F03 80F5 80F7 8007 6003 8017:
\* differences with and without borrow, with y # x, y = x and y = 0xF
ProgSub ==
  << 24581, 24842, 32789, 32789, 32791, 32791, 32773, 28419, 33013, 33015,
     32775, 24579, 32791 >>

\* 61AB F129 6F0F FF29 F029: the glyphs of V1 = 0xAB, VF = 0x0F and V0 = 0
ProgGlyph == << 25003, 61737, 28431, 65321, 61481 >>

\* 6003 F018 6001 F018 6000 F018 6002 F018 1210: the sound timer loaded with
\* 3, 1, 0 and 2, then a jump to itself
ProgBeep ==
  << 24579, 61464, 24577, 61464, 24576, 61464, 24578, 61464, 4624 >>

\* 6F03 6102 8F14 6F07 8F15 6F03 8F17 6F03 8F16 6F81 8F1E: the arithmetic and
\* the shifts with VF as the destination
ProgFlagF ==
  << 28419, 24834, 36628, 28423, 36629, 28419, 36631, 28419, 36630, 28545,
     36638 >>

\* 6007 3007 0000 4008 0000 6107 5010 0000 6108 9010 0000 3008 4007 5010 9000:
\* each skip taken over a word that is no instruction, then each not taken
ProgSkip ==
  << 24583, 12295, 0, 16392, 0, 24839, 20496, 0, 24840, 36880, 0, 12296,
     16391, 20496, 36864 >>

OperandPrograms ==
  { ProgAdd, ProgSub, ProgGlyph, ProgBeep, ProgFlagF, ProgSkip }

InitOperands == InitOf(OperandPrograms)

SpecOperands == InitOperands /\ [][Next]_vars

\* every value of a register
Bytes8 == 0..(U8 - 1)

\* C22: for all a, b in 0..255 and x # 0xF: 7xnn with Vx = a and nn = b leaves
\* Vx = (a + b) mod 256; 8xy4 with Vx = a and Vy = b leaves Vx = (a + b) mod 256
\* and VF = 1 if a + b > 255, VF = 0 otherwise, also when y = 0xF or y = x.
\* Checked wherever a 7xnn or 8xy4 is the next instruction: for the operands
\* the machine holds, through execute_next_instruction, and for every a and b
\* put into the registers of that machine.
C22_AddWrapsAndCarries ==
  (fault = "none" /\ CanFetch(Chip8)) =>
    \E op \in {NextOpcode} : \E x \in {OpX(op)}, y \in {OpY(op)} :
      /\ (op \div 4096 = 7 /\ x # 15) =>
           /\ \A a \in Bytes8, b \in Bytes8 :
                add_to_variable_register(SetV(Chip8, x, a), x, b).variable_registers[x]
                  = (a + b) % 256
           /\ \A random_number \in RandomBytes :
                LET s == execute_next_instruction(Chip8, random_number)
                IN  /\ s.fault = "none"
                    /\ s.variable_registers[x]
                         = (variable_registers[x] + OpNN(op)) % 256
      /\ (op \div 4096 = 8 /\ OpN(op) = 4 /\ x # 15) =>
           /\ \A a \in Bytes8, b \in Bytes8 :
                (x = y => a = b) =>
                  LET s == add_vy_to_vx(SetV(SetV(Chip8, y, b), x, a), x, y)
                  IN  /\ s.variable_registers[x] = (a + b) % 256
                      /\ s.variable_registers[15] = IF a + b > 255 THEN 1 ELSE 0
           /\ \A random_number \in RandomBytes :
                LET s == execute_next_instruction(Chip8, random_number)
                    a == variable_registers[x]
                    b == variable_registers[y]
                IN  /\ s.fault = "none"
                    /\ s.variable_registers[x] = (a + b) % 256
                    /\ s.variable_registers[15] = IF a + b > 255 THEN 1 ELSE 0

\* 8014 with V0 = 0xFF and V1 = 0x64 has left V0 = 0x63 and VF = 1
C22_Witness ==
  /\ rom = Bytes(ProgAdd)
  /\ fault = "none"
  /\ program_counter = PROGRAM_START_ADDRESS + 10
  /\ variable_registers[0] = 99
  /\ variable_registers[1] = 100
  /\ variable_registers[15] = 1

\* C23: for all a, b in 0..255 and x # 0xF: 8xy5 with Vx = a and Vy = b leaves
\* Vx = (a - b) mod 256 and VF = 0 if a < b, VF = 1 otherwise; 8xy7 leaves
\* Vx = (b - a) mod 256 and VF = 0 if b < a, VF = 1 otherwise; equal operands
\* give the result 0 and VF = 1.  Checked wherever an 8xy5 or 8xy7 is the next
\* instruction: for the operands the machine holds, through
\* execute_next_instruction, and for every a and b put into its registers.
C23_SubtractWrapsAndBorrows ==
  (fault = "none" /\ CanFetch(Chip8)) =>
    \E op \in {NextOpcode} : \E x \in {OpX(op)}, y \in {OpY(op)} :
      /\ (op \div 4096 = 8 /\ OpN(op) = 5 /\ x # 15) =>
           /\ \A a \in Bytes8, b \in Bytes8 :
                (x = y => a = b) =>
                  LET s == subtract_vy_from_vx(SetV(SetV(Chip8, y, b), x, a), x, y)
                  IN  /\ s.variable_registers[x] = (a - b) % 256
                      /\ s.variable_registers[15] = IF a < b THEN 0 ELSE 1
                      /\ a = b => s.variable_registers[x] = 0 /\ s.variable_registers[15] = 1
           /\ \A random_number \in RandomBytes :
                LET s == execute_next_instruction(Chip8, random_number)
                    a == variable_registers[x]
                    b == variable_registers[y]
                IN  /\ s.fault = "none"
                    /\ s.variable_registers[x] = (a - b) % 256
                    /\ s.variable_registers[15] = IF a < b THEN 0 ELSE 1
      /\ (op \div 4096 = 8 /\ OpN(op) = 7 /\ x # 15) =>
           /\ \A a \in Bytes8, b \in Bytes8 :
                (x = y => a = b) =>
                  LET s == subtract_vx_from_vy_into_vx(SetV(SetV(Chip8, y, b), x, a), x, y)
                  IN  /\ s.variable_registers[x] = (b - a) % 256
                      /\ s.variable_registers[15] = IF b < a THEN 0 ELSE 1
                      /\ a = b => s.variable_registers[x] = 0 /\ s.variable_registers[15] = 1
           /\ \A random_number \in RandomBytes :
                LET s == execute_next_instruction(Chip8, random_number)
                    a == variable_registers[x]
                    b == variable_registers[y]
                IN  /\ s.fault = "none"
                    /\ s.variable_registers[x] = (b - a) % 256
                    /\ s.variable_registers[15] = IF b < a THEN 0 ELSE 1

\* 8015 with V0 = 5 and V1 = 10 has left V0 = 0xFB and VF = 0
C23_Witness ==
  /\ rom = Bytes(ProgSub)
  /\ fault = "none"
  /\ program_counter = PROGRAM_START_ADDRESS + 6
  /\ variable_registers[0] = 251
  /\ variable_registers[1] = 10
  /\ variable_registers[15] = 0

\* C24: Fx29 sets index_register = 0x050 + (Vx mod 16) * 5 for every Vx in
\* 0..255 (checked wherever an Fx29 is the next instruction, for the Vx held
\* and for every value put into Vx), and in a state that construction and
\* load_program alone have produced the 5 bytes at that address are the rows
\* of the built-in glyph of the digit Vx mod 16.
C24_FontCharacterAddress ==
  /\ (fault = "none" /\ CanFetch(Chip8)) =>
       \E op \in {NextOpcode} : \E x \in {OpX(op)} :
         (op \div 4096 = 15 /\ OpNN(op) = 41) =>
           /\ \A v \in Bytes8 :
                point_index_register_at_font_character(SetV(Chip8, x, v), x).index_register
                  = 80 + (v % 16) * 5
           /\ \A random_number \in RandomBytes :
                LET s == execute_next_instruction(Chip8, random_number)
                IN  /\ s.fault = "none"
                    /\ s.index_register = 80 + (variable_registers[x] % 16) * 5
  /\ \A m \in {new(emulator_type, overflow_checks),
                load_program(new(emulator_type, overflow_checks), rom)} :
       \A v \in Bytes8, row \in 0..4 :
         m.ram[80 + (v % 16) * 5 + row] = FONT[(v % 16) * 5 + row + 1]

\* F129 with V1 = 0xAB, in a machine whose font nothing has overwritten, has
\* left index_register at the glyph of B, whose first row is 0xE0
C24_Witness ==
  /\ rom = Bytes(ProgGlyph)
  /\ fault = "none"
  /\ program_counter = PROGRAM_START_ADDRESS + 4
  /\ variable_registers[1] = 171
  /\ index_register = 135
  /\ ram[135] = 224

\* C25: the entropy source is used by Cxnn alone: an executed Cxnn draws one
\* byte r from it and leaves Vx = r AND nn, so that every bit cleared in nn is
\* cleared in Vx; no other instruction, no timer tick, no keypad call and no
\* load draws from it or advances it.
C25_EntropyDrawnByRandomizeOnly ==
  [][IF ExecuteNextInstruction /\ CanFetch(Chip8) /\ NextOpcode \div 4096 = 12
     THEN LET x == OpX(NextOpcode)
              nn == OpNN(NextOpcode)
          IN  /\ fault' = "none"
              /\ rng' = rng + 1
              /\ \E r \in RandomBytes :
                   \A i \in 0..7 :
                     (variable_registers'[x] \div 2^i) % 2
                       = ((r \div 2^i) % 2) * ((nn \div 2^i) % 2)
              /\ \A i \in 0..7 :
                   (nn \div 2^i) % 2 = 0 => (variable_registers'[x] \div 2^i) % 2 = 0
     ELSE rng' = rng]_vars

\* C10F and C2F0 have drawn one byte each, 0xFE under the mask 0x0F and 0xFF
\* under the mask 0xF0, and the addition after them has drawn nothing
C25_Witness ==
  /\ rom = Bytes(ProgDice)
  /\ fault = "none"
  /\ program_counter = PROGRAM_START_ADDRESS + 6
  /\ rng = 2
  /\ variable_registers[1] = 15
  /\ variable_registers[2] = 240

\* C26: is_playing_sound() is true exactly when sound_timer > 0; after an Fx18
\* has loaded the value v it is true while fewer than v calls of
\* decrement_timers have happened since, and false from the v-th call on,
\* until the next Fx18, whatever was executed in between.
C26_SoundPlaysWhileTimerRuns ==
  /\ is_playing_sound(Chip8) <=> sound_timer > 0
  /\ is_playing_sound(Chip8) <=> sound_ticks < sound_loaded

\* Fx18 has loaded 3, decrement_timers has run twice and an instruction has
\* been executed since: the sound still plays
C26_Witness ==
  /\ rom = Bytes(ProgBeep)
  /\ fault = "none"
  /\ program_counter = PROGRAM_START_ADDRESS + 6
  /\ sound_loaded = 3
  /\ sound_ticks = 2
  /\ sound_timer = 1

\* C27: key_down(k) sets key k to Down and key_up(k) sets it to Up, each
\* changing no other key and nothing else in the machine; no other operation
\* changes keypad_state, so that key_state(k) is the value of the last
\* key_down or key_up for k (Up if there was none), whatever was executed in
\* between.  On every step: key_state agrees with the last host call before
\* and after it, a step that changes the keypad changes one key, by a host
\* call for that key, and a host call changes nothing else in the machine.
C27_KeypadFollowsHostCalls ==
  [][/\ \A k \in 0..(NUM_KEYS - 1) :
          /\ key_state(Chip8, k) = last_key_call[k]
          /\ key_state(Chip8, k)' = last_key_call'[k]
     /\ keypad_state' # keypad_state =>
          /\ \E k \in HostKeys, st \in KeyState :
               /\ keypad_state' = [keypad_state EXCEPT ![k] = st]
               /\ last_key_call' = [last_key_call EXCEPT ![k] = st]
          /\ UNCHANGED << ram, frame_buffer, stack, stack_pointer, delay_timer,
                          sound_timer, program_counter, index_register,
                          variable_registers, emulator_type,
                          previous_keypad_state, rng, fault >>
     /\ (KeyDown \/ KeyUp) =>
          UNCHANGED << ram, frame_buffer, stack, stack_pointer, delay_timer,
                       sound_timer, program_counter, index_register,
                       variable_registers, emulator_type,
                       previous_keypad_state, rng, fault >>]_vars

\* key_down(1), then key_down(0) and key_up(0), around the execution of an
\* Fx0A: key 1 is still Down and key 0 is Up
C27_Witness ==
  /\ rom = Bytes(ProgKey)
  /\ fault = "none"
  /\ waiting
  /\ wait_down = {0, 1}
  /\ key_state(Chip8, 0) = "Up"
  /\ key_state(Chip8, 1) = "Down"
  /\ last_key_call[1] = "Down"

(***************************************************************************)
(* Programs up to and beyond the room above 0x200                          *)
(***************************************************************************)
\* the bytes of ram from PROGRAM_START_ADDRESS on
MaxProgramLen == MEMORY_SIZE - PROGRAM_START_ADDRESS

\* 12FE in every word from 0x200 to the end of the ram: a jump to a jump to
\* itself
ProgFull == [i \in 1..(MaxProgramLen \div 2) |-> 4862]
\* the bytes of ProgFull and one byte more
RomTooLong ==
  [i \in 1..(MaxProgramLen + 1) |-> IF i % 2 = 1 THEN 18 ELSE 254]

LoadRoms ==
  { Bytes(ProgFull), RomTooLong, Bytes(ProgFont), Bytes(ProgCall),
    Bytes(ProgTimer) }

InitLoad == InitRom(LoadRoms)

SpecLoad == InitLoad /\ [][Next]_vars

\* C28: load_program(bytes) with len(bytes) <= 4096 - 0x200 sets
\* ram[0x200 + i] = bytes[i] for every i and changes no other byte of the ram
\* (the font included), no register, timer, stack entry or program_counter;
\* with a longer slice it faults and no byte of the ram has changed.  Checked
\* in every state the host can call it in, for the program of the host.
C28_LoadProgramWritesProgramOnly ==
  fault = "none" =>
    \A bytes \in {rom} :
      \E s \in {load_program(Chip8, bytes)} :
          IF Len(bytes) <= 4096 - 512
          THEN /\ s.fault = "none"
               /\ \A i \in 0..(Len(bytes) - 1) : s.ram[512 + i] = bytes[i + 1]
               /\ \A a \in 0..4095 :
                    (a < 512 \/ a >= 512 + Len(bytes)) => s.ram[a] = ram[a]
               /\ s.variable_registers = variable_registers
               /\ s.index_register = index_register
               /\ s.delay_timer = delay_timer
               /\ s.sound_timer = sound_timer
               /\ s.stack = stack
               /\ s.stack_pointer = stack_pointer
               /\ s.program_counter = program_counter
          ELSE /\ s.fault # "none"
               /\ s.ram = ram

\* the program that fills the ram from 0x200 to its last byte is loaded, the
\* font below it is as construction left it
C28_Witness ==
  /\ rom = Bytes(ProgFull)
  /\ fault = "none"
  /\ ram[511] = 0
  /\ ram[512] = 18
  /\ ram[4095] = 254
  /\ FontIntact(ram)

\* C29, as stated: after 8xy4, 8xy5, 8xy7, 8xy6 and 8xyE register VF holds
\* the flag of the instruction (carry, no borrow, the bit shifted out),
\* computed from the operands as they were before the instruction, for every
\* x and y, x = 0xF included.
C29_FlagAfterArithmetic ==
  [][(ExecuteNextInstruction /\ CanFetch(Chip8)
        /\ NextOpcode \div 4096 = 8 /\ OpN(NextOpcode) \in {4, 5, 6, 7, 14}) =>
       LET n == OpN(NextOpcode)
           a == variable_registers[OpX(NextOpcode)]
           b == variable_registers[OpY(NextOpcode)]
           v == IF emulator_type = "CosmacVip" THEN b ELSE a
           flag == CASE n = 4 -> IF a + b > 255 THEN 1 ELSE 0
                     [] n = 5 -> IF a < b THEN 0 ELSE 1
                     [] n = 7 -> IF b < a THEN 0 ELSE 1
                     [] n = 6 -> v % 2
                     [] n = 14 -> v \div 128
       IN  variable_registers'[15] = flag]_vars

\* C30: 3xnn, 4xnn, 5xy0 and 9xy0 executed at the address p leave
\* program_counter = p + 4 if the condition holds (Vx = nn, Vx # nn, Vx = Vy,
\* Vx # Vy) and p + 2 if not; no register, no byte of the ram and no stack
\* entry changes; and of 3xnn and 4xnn with the same operands exactly one
\* skips, as of 5xy0 and 9xy0 (checked in the state of each executed skip for
\* every x and nn, and for every x and y).
C30_SkipsAdvanceByCondition ==
  [][(ExecuteNextInstruction /\ CanFetch(Chip8)
        /\ \/ NextOpcode \div 4096 \in {3, 4}
           \/ NextOpcode \div 4096 \in {5, 9} /\ OpN(NextOpcode) = 0) =>
       LET family == NextOpcode \div 4096
           p == program_counter
           vx == variable_registers[OpX(NextOpcode)]
           vy == variable_registers[OpY(NextOpcode)]
           nn == OpNN(NextOpcode)
           holds == CASE family = 3 -> vx = nn
                      [] family = 4 -> vx # nn
                      [] family = 5 -> vx = vy
                      [] family = 9 -> vx # vy
       IN  /\ fault' = "none"
           /\ program_counter' = IF holds THEN p + 4 ELSE p + 2
           /\ UNCHANGED << variable_registers, index_register, ram, stack,
                           stack_pointer >>
           /\ \E m \in {AdvancePc(Chip8)} :
                IF family \in {3, 4}
                THEN \A x \in 0..15, b \in Bytes8 :
                       (skip_instruction_if_vx_equals_nn(m, x, b).program_counter = p + 4)
                         # (skip_instruction_if_vx_not_equals_nn(m, x, b).program_counter = p + 4)
                ELSE \A x \in 0..15, y \in 0..15 :
                       (skip_instruction_if_vx_equals_vy(m, x, y).program_counter = p + 4)
                         # (skip_instruction_if_vx_not_equals_vy(m, x, y).program_counter = p + 4)]_vars

\* 5010 at 0x20C with V0 = V1 = 7 has skipped the word after it
C30_Witness ==
  /\ rom = Bytes(ProgSkip)
  /\ fault = "none"
  /\ program_counter = PROGRAM_START_ADDRESS + 16
  /\ variable_registers[0] = 7
  /\ variable_registers[1] = 7

(***************************************************************************)
(* Every instruction that is no control transfer, one after the other      *)
(***************************************************************************)
\* 6001 A300 D011 F015 F018 F007 F01E F029 A300 F033 F155 F165 8016 801E C10F
\* 00E0: a draw, the timers, the index register, the digits, a store and a
\* load, the shifts, a random byte
ProgStraight ==
  << 24577, 41728, 53265, 61461, 61464, 61447, 61470, 61481, 41728, 61491,
     61781, 61797, 32790, 32798, 49423, 224 >>

\* A300 6AFF FA33: the digits of VA = 255
ProgDigits == << 41728, 27391, 64051 >>

\* 6F07 60F0 6133 8011 8012 8013 70FF 7002 AFFF F11E A300 F165: VF = 7, then
\* the three logic instructions, an addition that overflows, an Fx1E that
\* leaves the twelve bits and an Fx65 of V0 and V1
ProgKeepF ==
  << 28423, 24816, 24883, 32785, 32786, 32787, 28927, 28674, 45055, 61726,
     41728, 61797 >>

StepPrograms == { ProgStraight, ProgTour, ProgBeep, ProgDigits, ProgKeepF }

InitSteps == InitOf(StepPrograms)

SpecSteps == InitSteps /\ [][Next]_vars

\* the instructions that are no control transfer: 00E0, 6xnn, 7xnn, 8xy0 to
\* 8xy7 and 8xyE, Annn, Cxnn, Dxyn, Fx07, Fx15, Fx18, Fx1E, Fx29, Fx33, Fx55,
\* Fx65
Sequential(w) ==
  \/ w = 224
  \/ w \div 4096 \in {6, 7, 10, 12, 13}
  \/ w \div 4096 = 8 /\ w % 16 \in {0, 1, 2, 3, 4, 5, 6, 7, 14}
  \/ w \div 4096 = 15 /\ w % 256 \in {7, 21, 24, 30, 41, 51, 85, 101}

\* C31: every instruction that is no control transfer and is executed at the
\* address p without a fault leaves program_counter = p + 2.
C31_SequentialInstructionsAdvanceByTwo ==
  [][(ExecuteNextInstruction /\ CanFetch(Chip8) /\ Sequential(NextOpcode)
        /\ fault' = "none") =>
       program_counter' = program_counter + 2]_vars

\* the Fx07 at 0x20A has read the running delay timer and the Fx1E after it
\* has been executed
C31_Witness ==
  /\ rom = Bytes(ProgStraight)
  /\ fault = "none"
  /\ program_counter = PROGRAM_START_ADDRESS + 14
  /\ delay_timer = 1
  /\ variable_registers[0] = 1
  /\ index_register = 769

\* C32, as stated: for every Vx in 0..255 and every keypad state, Ex9E
\* executed at p leaves program_counter = p + 4 if the key with the index Vx
\* is down and p + 2 if not, ExA1 leaves p + 4 if that key is up and p + 2 if
\* not; neither changes a register or the keypad.  (No key has an index
\* above 15: such a key is neither down nor up.)
C32_KeySkips ==
  [][(ExecuteNextInstruction /\ CanFetch(Chip8)
        /\ NextOpcode \div 4096 = 14 /\ NextOpcode % 256 \in {158, 161}) =>
       LET vx == variable_registers[OpX(NextOpcode)]
           wanted == IF NextOpcode % 256 = 158 THEN "Down" ELSE "Up"
           skips == vx < NUM_KEYS /\ keypad_state[vx] = wanted
       IN  /\ fault' = "none"
           /\ program_counter' = IF skips THEN program_counter + 4
                                  ELSE program_counter + 2
           /\ UNCHANGED << variable_registers, keypad_state >>]_vars

\* C33, as stated: execute_next_instruction leaves delay_timer unchanged
\* unless the instruction is Fx15 and sound_timer unchanged unless it is
\* Fx18, and a timer is lowered by decrement_timers only.
C33_OnlyDecrementLowersTimers ==
  [][/\ (delay_timer' # delay_timer /\ ExecuteNextInstruction) => LoadsDelay(Chip8)
     /\ (sound_timer' # sound_timer /\ ExecuteNextInstruction) => LoadsSound(Chip8)
     /\ (delay_timer' < delay_timer \/ sound_timer' < sound_timer) =>
          DecrementTimers]_vars

\* C33, amended: execute_next_instruction leaves delay_timer unchanged unless
\* the instruction is Fx15, which sets it to Vx, and sound_timer unchanged
\* unless it is Fx18, which sets it to Vx; every other change of a timer is a
\* decrement_timers, which lowers it by one.
C33_TimersChangeByLoadOrTick ==
  [][/\ (delay_timer' # delay_timer /\ ExecuteNextInstruction) => LoadsDelay(Chip8)
     /\ (sound_timer' # sound_timer /\ ExecuteNextInstruction) => LoadsSound(Chip8)
     /\ delay_timer' # delay_timer =>
          \/ DecrementTimers /\ delay_timer' = delay_timer - 1
          \/ /\ ExecuteNextInstruction
             /\ delay_timer' = variable_registers[OpX(NextOpcode)]
     /\ sound_timer' # sound_timer =>
          \/ DecrementTimers /\ sound_timer' = sound_timer - 1
          \/ /\ ExecuteNextInstruction
             /\ sound_timer' = variable_registers[OpX(NextOpcode)]]_vars

\* the sound timer, loaded with 3 and never ticked, has been loaded with 1 by
\* the second Fx18, and an instruction executed since has left it alone
C33_Witness ==
  /\ rom = Bytes(ProgBeep)
  /\ fault = "none"
  /\ program_counter = PROGRAM_START_ADDRESS + 10
  /\ sound_loaded = 1
  /\ sound_ticks = 0
  /\ sound_timer = 1

\* C35: Fx33 with Vx = v, the three addresses from index_register on being in
\* the ram, stores h, t, o at ram[index_register], ram[index_register + 1],
\* ram[index_register + 2], each in 0..9 and with 100 * h + 10 * t + o = v, for
\* every v in 0..255; index_register, the registers and every other byte of
\* the ram are unchanged.  Checked wherever an Fx33 is the next instruction:
\* for the Vx held, through execute_next_instruction, and for every v put
\* into Vx.
C35_DecimalDigits ==
  (fault = "none" /\ CanFetch(Chip8)) =>
    \E op \in {NextOpcode} : \E x \in {OpX(op)}, i \in {index_register} :
      (op \div 4096 = 15 /\ op % 256 = 51 /\ i + 2 <= 4095) =>
        /\ \A v \in Bytes8 :
             \E s \in {put_vx_decimal_digits_into_memory(SetV(Chip8, x, v), x)} :
             \E h \in {s.ram[i]}, t \in {s.ram[i + 1]}, o \in {s.ram[i + 2]} :
               /\ h \in 0..9 /\ t \in 0..9 /\ o \in 0..9
               /\ 100 * h + 10 * t + o = v
               /\ s.fault = "none"
               /\ s.ram = [ram EXCEPT ![i] = h, ![i + 1] = t, ![i + 2] = o]
               /\ s.index_register = i
               /\ s.variable_registers = [variable_registers EXCEPT ![x] = v]
        /\ \A random_number \in RandomBytes :
             \E s \in {execute_next_instruction(Chip8, random_number)} :
               /\ s.fault = "none"
               /\ 100 * s.ram[i] + 10 * s.ram[i + 1] + s.ram[i + 2] = variable_registers[x]
               /\ s.ram[i] \in 0..9 /\ s.ram[i + 1] \in 0..9 /\ s.ram[i + 2] \in 0..9
               /\ \A a \in 0..4095 : a \notin {i, i + 1, i + 2} => s.ram[a] = ram[a]
               /\ s.index_register = i
               /\ s.variable_registers = variable_registers

\* FA33 with VA = 255 and index_register = 0x300 has stored 2, 5, 5
C35_Witness ==
  /\ rom = Bytes(ProgDigits)
  /\ fault = "none"
  /\ program_counter = PROGRAM_START_ADDRESS + 6
  /\ variable_registers[10] = 255
  /\ index_register = 768
  /\ ram[768] = 2
  /\ ram[769] = 5
  /\ ram[770] = 5
  /\ ram[771] = 0

\* the instructions that write VF as a flag: 8xy4, 8xy5, 8xy6, 8xy7, 8xyE, Dxyn
FlagWriter(w) ==
  \/ w \div 4096 = 8 /\ w % 16 \in {4, 5, 6, 7, 14}
  \/ w \div 4096 = 13

\* the instructions whose destination register is VF: 6Fnn, 7Fnn, 8Fy0 to
\* 8Fy3, CFnn, FF07, FF0A and FF65 (which loads V0 to VF)
DestinationIsF(w) ==
  /\ (w \div 256) % 16 = 15
  /\ \/ w \div 4096 \in {6, 7, 12}
     \/ w \div 4096 = 8 /\ w % 16 \in {0, 1, 2, 3}
     \/ w \div 4096 = 15 /\ w % 256 \in {7, 10, 101}

\* index_register values an Fx1E is applied to: the twelve bits of an Annn
\* and the last values below 2^16, which a chain of Fx1E reaches
IndexValues == (0..4095) \cup ((U16 - 256)..(U16 - 1))

\* C36: every instruction other than 8xy4, 8xy5, 8xy6, 8xy7, 8xyE and Dxyn
\* that is executed with a destination register other than VF leaves VF
\* unchanged, and Fx1E sets index_register to (index_register + Vx) mod 65536
\* (for the index_register held and for every value in IndexValues).
C36_FlagOnlyFromFlagWriters ==
  [][(ExecuteNextInstruction /\ CanFetch(Chip8)) =>
       \E op \in {NextOpcode} :
         /\ (~FlagWriter(op) /\ ~DestinationIsF(op)) =>
              variable_registers'[15] = variable_registers[15]
         /\ (op \div 4096 = 15 /\ op % 256 = 30) =>
              \E x \in {OpX(op)} :
                /\ index_register' = (index_register + variable_registers[x]) % 65536
                /\ fault' = "none"
                /\ \A i \in IndexValues :
                     \E s \in {add_vx_to_index_register(
                                  [Chip8 EXCEPT !.index_register = i], x)} :
                       /\ s.index_register = (i + variable_registers[x]) % 65536
                       /\ s.variable_registers = variable_registers]_vars

\* F11E with index_register = 0xFFF and V1 = 0x33 has left 0x1032 and VF = 7,
\* after 8011, 8012, 8013 and the overflowing 7002
C36_Witness ==
  /\ rom = Bytes(ProgKeepF)
  /\ fault = "none"
  /\ program_counter = PROGRAM_START_ADDRESS + 20
  /\ index_register = 4146
  /\ variable_registers[0] = 1
  /\ variable_registers[1] = 51
  /\ variable_registers[15] = 7

(***************************************************************************)
(* The delay timer loaded, ticked and read                                 *)
(***************************************************************************)
\* 6003 F015 6001 F018 F107 F207 6002 F015 F307: the delay timer loaded with
\* 3 and read twice, the sound timer loaded with 1 in between, the delay
\* timer loaded again and read
ProgDelay ==
  << 24579, 61461, 24577, 61464, 61703, 61959, 24578, 61461, 62215 >>

DelayPrograms == { ProgDelay, ProgTimer }

InitDelay == InitOf(DelayPrograms)

SpecDelay == InitDelay /\ [][Next]_vars

\* C34: after an Fx15 has loaded the delay timer with v and k calls of
\* decrement_timers have followed it, in any order with instructions other
\* than Fx15, an Fx07 reads max(v - k, 0) into Vx; the sound timer that Fx18
\* loads has no part in the value.  (The history counts k up to v: more calls
\* leave the maximum at 0.)
C34_DelayReadIsLoadMinusTicks ==
  [][(ExecuteNextInstruction /\ CanFetch(Chip8)
        /\ NextOpcode \div 4096 = 15 /\ NextOpcode % 256 = 7) =>
       /\ fault' = "none"
       /\ variable_registers'[OpX(NextOpcode)] =
            IF delay_loaded - delay_ticks > 0 THEN delay_loaded - delay_ticks ELSE 0]_vars

\* Fx15 has loaded 3, decrement_timers has run once, Fx18 has loaded 1, and
\* the F107 after it has read 2
C34_Witness ==
  /\ rom = Bytes(ProgDelay)
  /\ fault = "none"
  /\ program_counter = PROGRAM_START_ADDRESS + 10
  /\ delay_loaded = 3
  /\ delay_ticks = 1
  /\ sound_loaded = 1
  /\ sound_timer = 1
  /\ variable_registers[1] = 2

(***************************************************************************)
(* The loop of main                                                        *)
(***************************************************************************)
\* 6003 F015 1204: start the delay timer, then run on the spot
ProgSpin == << 24579, 61461, 4612 >>

MainPrograms == { ProgSpin }

\* main builds the machine for the Chip48 and loads the program
InitMain == InitHost({Bytes(words) : words \in MainPrograms}, "load", {"Chip48"})

SpecMain == InitMain /\ [][Next]_vars

\* C37, as stated: between any two consecutive calls of decrement_timers in
\* the loop of main there are exactly 12 calls of execute_next_instruction.
C37_TwelveInstructionsPerTick ==
  [][(host_at = "timers" /\ host_at' = "keys" /\ since_tick >= 0) =>
       since_tick = InstructionsPerTick]_vars

(***************************************************************************)
(* The fetch and the fields of the opcode                                  *)
(***************************************************************************)
\* every 16-bit word
Words == 0..(U16 - 1)

\* the fields of every word, against the shifts and masks as arithmetic
DecodedFields ==
  \A w \in Words :
    \E x \in {OpX(w)}, y \in {OpY(w)}, n \in {OpN(w)}, nn \in {OpNN(w)},
       nnn \in {OpNNN(w)} :
      /\ x = (w \div 256) % 16
      /\ y = (w \div 16) % 16
      /\ n = w % 16
      /\ nn = w % 256
      /\ nnn = w % 4096
      /\ nn = 16 * y + n
      /\ nnn = 256 * x + nn

\* C38: the fetch composes the word ram[program_counter] * 256 +
\* ram[program_counter + 1] and changes no state (seen at the jump to its own
\* address, whose execution leaves the whole machine as it was), and for
\* every word w in 0..65535 the fields are x = (w >> 8) & 0xF,
\* y = (w >> 4) & 0xF, n = w & 0xF, nn = w & 0xFF, nnn = w & 0xFFF, with
\* nn = 16 * y + n and nnn = 256 * x + nn.  The fields do not depend on the
\* state: they are computed for all words once, before main loads the
\* program.
C38_FetchAndDecode ==
  /\ (fault = "none" /\ CanFetch(Chip8)) =>
       \E w \in {fetch_next_opcode(Chip8)} :
         /\ w = ram[program_counter] * 256 + ram[program_counter + 1]
         /\ w \in Words
         /\ (w = 4096 + program_counter) =>
              \A random_number \in RandomBytes :
                execute_next_instruction(Chip8, random_number) = Chip8
  /\ host_at = "load" => DecodedFields

\* main is about to fetch the word 0x1204 from the bytes 0x12, 0x04 at 0x204,
\* after the fourth execution since a call of decrement_timers
C38_Witness ==
  /\ rom = Bytes(ProgSpin)
  /\ fault = "none"
  /\ host_at = "keys"
  /\ since_tick = 4
  /\ program_counter = PROGRAM_START_ADDRESS + 4
  /\ ram[program_counter] = 18
  /\ ram[program_counter + 1] = 4
  /\ NextOpcode = 4612
  /\ OpX(NextOpcode) = 2
  /\ OpY(NextOpcode) = 0
  /\ OpN(NextOpcode) = 4
  /\ OpNNN(NextOpcode) = 516

====
